---- MODULE Spec2Model ----
\* A model of movistar-u7d: the EPG service (movistar_epg.py), the RTSP
\* negotiator (u7d.py) and the streaming orchestrator (movistar-u7d.py).
EXTENDS Integers, Sequences, FiniteSets, TLC

VARIABLES
    \* ---- movistar_epg.py ----
    epg_file,       \* the persisted Event table snapshot (epg.json, 'data')
    epgdata,        \* _epgdata: channel -> insertion-ordered table of events
    channels,       \* _channels: channel -> name
    cloud,          \* _cloud: channel -> set of begin timestamps
    cloud_file,     \* the persisted cloud snapshot (cloud.json)
    cloud_guide,    \* cloud.m3u / cloud.xml have been generated
    epg_last,       \* the last operation of the EPG service and its answer
    \* ---- u7d.py ----
    npc,            \* where main() stands
    client,         \* the RtspClient (url, ip, cseq), or NoClient
    session,        \* main's session: the Session header value, or NoSession
    needs_position, \* the global needs_position
    setup_r,        \* r: the response to the last SETUP / SETUP2
    reqs,           \* every call of send_request so far, with its response
    ending,         \* how main() is ending: return, KeyboardInterrupt, exception
    \* ---- movistar-u7d.py ----
    hpc,            \* where handle_rtp stands
    request,        \* the request: its url and its first query argument
    cmd,            \* what the EPG answered and the command line built from it
    u7d,            \* the negotiator unit: none, running, exited, interrupted
    sigints,        \* calls of u7d.send_signal(SIGINT) by the handler
    absorbed,       \* ProcessLookupErrors caught by the handler
    survived,       \* the unit was still running when the 300 ms ran out
    resp_open,      \* request.respond() has opened the client response
    bound,          \* asyncio_dgram.bind() has bound the relay socket
    received,       \* the datagrams stream.recv() returned, in order
    chunks,         \* the calls of resp.send(data, end_stream), in order
    answer,         \* what the handler returned to the client
    \* ---- movistar_epg.py: timers_check ----
    tpc,            \* where the scan cycle stands
    recording_threads, \* RECORDING_THREADS, the cap (0: no cap)
    t_delayed,      \* timers_check_delayed has run
    t_world,        \* what the cycle reads: timers, recordings, table, ffmpeg
    t_pos,          \* the channel, event and rule the loops stand at
    timers_added,   \* timers_added of the channel being scanned
    nr_procs,       \* nr_procs
    t_files,        \* the titles whose temporary output file exists
    t_log,          \* the recording requests issued, with their answers
    \* ---- movistar_epg.py: the asyncio tasks and their locks ----
    stacks,         \* task -> its chain of awaiting coroutines, innermost last
    locks,          \* epg_lock, tvgrab_lock: the coroutine holding it, or NoHolder
    runs,           \* how many times a task was started
    dead,           \* task -> an exception ended it
    snapshots,      \* epg.json, epg_metadata.json, and whether CHANNELS/GUIDE exist
    store,          \* which generation _epgdata and _channels hold; cloud merged
    generation,     \* the generation the grabber wrote last
    finished,       \* what the update_epg call that ended last did
    seen,           \* the store as a reader found it
    \* ---- movistar-u7d.py: the relay ports of concurrent requests ----
    handlers,       \* request -> where its handler stands, and its client_port
    udp,            \* UDP port -> the request whose socket is bound to it, or 0
    \* ---- movistar_epg.py: confirmations of finished recordings ----
    puts,           \* PUT /program_name request -> where it stands, its _recordings
    recordings_file, \* recordings.json: the programs it records
    recordings_lock, \* recordings_lock: its holder and the requests waiting for it
    \* ---- movistar_epg.py: a timers scan next to the scheduled cloud merge ----
    scan_epgdata,   \* _epgdata, as the scan and the merge share it
    scan_cloud,     \* _cloud
    iter            \* the scan: where it stands and its reversed() iterator

epg_vars == <<epg_file, epgdata, channels, cloud, cloud_file, cloud_guide, epg_last>>
rtsp_vars == <<npc, client, session, needs_position, setup_r, reqs, ending>>
rtp_vars == <<hpc, request, cmd, u7d, sigints, absorbed, survived, resp_open,
              bound, received, chunks, answer>>
tmr_vars == <<tpc, recording_threads, t_delayed, t_world, t_pos, timers_added,
              nr_procs, t_files, t_log>>
task_vars == <<stacks, locks, runs, dead, snapshots, store, generation, finished, seen>>
port_vars == <<handlers, udp>>
rec_vars == <<puts, recordings_file, recordings_lock>>
scan_vars == <<scan_epgdata, scan_cloud, iter>>
vars == <<epg_vars, rtsp_vars, rtp_vars, tmr_vars, task_vars, port_vars, rec_vars,
          scan_vars>>
\* what the steps of one program leave alone: the other programs
not_epg == <<rtsp_vars, rtp_vars, tmr_vars, task_vars, port_vars, rec_vars, scan_vars>>
not_rtsp == <<epg_vars, rtp_vars, tmr_vars, task_vars, port_vars, rec_vars, scan_vars>>
not_rtp == <<epg_vars, rtsp_vars, tmr_vars, task_vars, port_vars, rec_vars, scan_vars>>
not_tmr == <<epg_vars, rtsp_vars, rtp_vars, task_vars, port_vars, rec_vars, scan_vars>>
not_task == <<epg_vars, rtsp_vars, rtp_vars, tmr_vars, port_vars, rec_vars, scan_vars>>
not_port == <<epg_vars, rtsp_vars, rtp_vars, tmr_vars, task_vars, rec_vars, scan_vars>>
not_rec == <<epg_vars, rtsp_vars, rtp_vars, tmr_vars, task_vars, port_vars, scan_vars>>
not_scan == <<epg_vars, rtsp_vars, rtp_vars, tmr_vars, task_vars, port_vars, rec_vars>>

\* ------------------------------------------------------------------------
\* Bounds of the model
\* ------------------------------------------------------------------------
MaxDigit == 1
MaxGuide == 2
MaxCloud == 2
DayEnd == 30

\* ------------------------------------------------------------------------
\* Timestamps are strings of decimal digits of one fixed width (ten digits in
\* the program, two here); a string is a sequence of digits.
\* ------------------------------------------------------------------------
Digits == 0..MaxDigit
Timestamps == {<<a, b>> : a \in Digits, b \in Digits}
EventStarts == {<<0, 1>>, <<1, 0>>}

\* Python's int() of a digit string
RECURSIVE IntOf(_)
IntOf(s) ==
    IF s = <<>> THEN 0
    ELSE 10 * IntOf(SubSeq(s, 1, Len(s) - 1)) + s[Len(s)]

\* Python's a > b on two strings
StrGreater(a, b) ==
    \E i \in 1..Len(a) :
        /\ \A j \in 1..(i - 1) : j <= Len(b) /\ a[j] = b[j]
        /\ (i > Len(b) \/ a[i] > b[i])

\* ------------------------------------------------------------------------
\* The guide snapshot written by the grabber: per channel, the events in
\* increasing start order; an event ends where the next one starts.
\* ------------------------------------------------------------------------
ChannelOrder == <<"c1", "c2">>
GuideChannels == {ChannelOrder[i] : i \in DOMAIN ChannelOrder}
UnknownChannel == "c9"
ChannelName(ch) == IF ch = "c1" THEN "La 1" ELSE "La 2"
ChannelBase(ch) == IF ch = "c1" THEN 100 ELSE 200

EmptyMap == [ch \in {} |-> {}]
NoEvent == <<>>

Min(S) == CHOOSE x \in S : \A y \in S : x <= y

RECURSIVE SortedStarts(_)
SortedStarts(S) ==
    IF S = {} THEN <<>>
    ELSE LET m == CHOOSE x \in S : \A y \in S : IntOf(x) <= IntOf(y)
         IN <<m>> \o SortedStarts(S \ {m})

GuideEntry(ch, S, s) ==
    LET later == {IntOf(t) : t \in {u \in S : IntOf(u) > IntOf(s)}}
    IN [start |-> s,
        pid   |-> ChannelBase(ch) + IntOf(s),
        end   |-> IF later = {} THEN DayEnd ELSE Min(later),
        raw   |-> FALSE]

GuideTable(ch, S) ==
    LET ss == SortedStarts(S)
    IN [i \in 1..Len(ss) |-> GuideEntry(ch, S, ss[i])]

\* the (channel, start) pairs the guide and the cloud catalog draw from
EventSlots == ({"c1"} \X EventStarts) \cup {<<"c2", <<0, 1>>>>}

GuideSnapshots ==
    {[ch \in GuideChannels |-> GuideTable(ch, {p[2] : p \in {q \in P : q[1] = ch}})] :
        P \in {Q \in SUBSET EventSlots : Cardinality(Q) <= MaxGuide}}

\* a cloud recording as the catalog returns it: it has serviceUID, beginTime
\* and productID, and none of the guide's fields (pid, end, full_title)
RawEntry(s) == [start |-> s, pid |-> 0, end |-> 0, raw |-> TRUE]

Keys(tbl) == {tbl[i].start : i \in DOMAIN tbl}
Entry(tbl, k) == tbl[CHOOSE i \in DOMAIN tbl : tbl[i].start = k]

\* ------------------------------------------------------------------------
\* get_program_id
\* ------------------------------------------------------------------------
NoMatch == <<>>
NoDur == <<>>
Urls == [start : Timestamps \cup {NoMatch}, dur : {NoDur, <<0>>, <<2>>}]

Result(kind, name, pid, duration, offset) ==
    [kind |-> kind, name |-> name, program_id |-> pid,
     duration |-> duration, offset |-> offset]
Raised(ex) == Result(ex, "", 0, 0, 0)
None == Result("None", "", 0, 0, 0)

\* for event in _epgdata[channel_id]: if event > start: break; last_event = event
RECURSIVE ScanEvents(_, _, _, _)
ScanEvents(tbl, i, start, last_event) ==
    IF i > Len(tbl) THEN last_event
    ELSE IF StrGreater(tbl[i].start, start) THEN last_event
    ELSE ScanEvents(tbl, i + 1, start, tbl[i].start)

\* get_program_id with the offset taken from the requested timestamp alone
get_program_id_stale_offset(channel_id, url) ==
    IF channel_id \notin DOMAIN channels THEN Raised("KeyError")
    ELSE IF url.start = NoMatch THEN Raised("AttributeError")
    ELSE IF channel_id \notin DOMAIN epgdata THEN Raised("KeyError")
    ELSE
      LET tbl == epgdata[channel_id]
          duration == IF url.dur # NoDur THEN IntOf(url.dur) ELSE 0
          exact == url.start \in Keys(tbl)
          last_event == IF exact THEN NoEvent
                        ELSE ScanEvents(tbl, 1, url.start, NoEvent)
          start == IF exact THEN url.start ELSE last_event
      IN IF ~exact /\ last_event = NoEvent THEN None
         ELSE IF Entry(tbl, start).raw THEN Raised("KeyError")
         ELSE Result("ok", channels[channel_id],
                     Entry(tbl, start).pid,
                     IF duration # 0 THEN duration
                     ELSE Entry(tbl, start).end - IntOf(start),
                     IF ~exact THEN IntOf(url.start) ELSE 0)

get_program_id(channel_id, url) ==
    IF channel_id \notin DOMAIN channels THEN Raised("KeyError")
    ELSE IF url.start = NoMatch THEN Raised("AttributeError")
    ELSE IF channel_id \notin DOMAIN epgdata THEN Raised("KeyError")
    ELSE
      LET tbl == epgdata[channel_id]
          duration == IF url.dur # NoDur THEN IntOf(url.dur) ELSE 0
          exact == url.start \in Keys(tbl)
          last_event == IF exact THEN NoEvent
                        ELSE ScanEvents(tbl, 1, url.start, NoEvent)
          start == IF exact THEN url.start ELSE last_event
          new_start == IF exact THEN NoEvent ELSE url.start
      IN IF ~exact /\ last_event = NoEvent THEN None
         ELSE IF Entry(tbl, start).raw THEN Raised("KeyError")
         ELSE Result("ok", channels[channel_id],
                     Entry(tbl, start).pid,
                     IF duration # 0 THEN duration
                     ELSE Entry(tbl, start).end - IntOf(start),
                     IF new_start # NoEvent THEN IntOf(new_start) - IntOf(start)
                     ELSE 0)

\* handle_program_id: the HTTP status of the answer and its JSON body
ProgramIdStatus(r) ==
    IF r.kind \in {"KeyError", "AttributeError"} THEN 404 ELSE 200

\* the last operation of the service: what was asked, what it answered, and
\* for the cloud operations the catalog fetched and whether it repeats the
\* operation before it
Last(op, channel_id, url, status, body, updated, raised, grabbed, catalog) ==
    [op |-> op, channel_id |-> channel_id, url |-> url, status |-> status,
     body |-> body, updated |-> updated, raised |-> raised, grabbed |-> grabbed,
     catalog |-> catalog,
     again |-> /\ op \in {"reload_epg", "update_cloud"}
               /\ op = epg_last.op
               /\ catalog = epg_last.catalog]
NoUrl == [start |-> NoMatch, dur |-> NoDur]
NoLast ==
    [op |-> "start", channel_id |-> "", url |-> NoUrl, status |-> 0, body |-> None,
     updated |-> FALSE, raised |-> FALSE, grabbed |-> FALSE, catalog |-> {},
     again |-> FALSE]

handle_program_id(channel_id, url) ==
    /\ LET r == get_program_id(channel_id, url)
       IN epg_last' = Last("program_id", channel_id, url, ProgramIdStatus(r), r,
                           FALSE, FALSE, FALSE, {})
    /\ UNCHANGED <<epg_file, epgdata, channels, cloud, cloud_file, cloud_guide>>
    /\ UNCHANGED not_epg

\* ------------------------------------------------------------------------
\* update_cloud
\* ------------------------------------------------------------------------
\* what the catalog request returns: no usable list (None or empty), or the
\* recordings, each a (serviceUID, beginTime) pair of a channel of the guide
NoCatalog == {}
Catalogs ==
    {Q \in SUBSET EventSlots : Cardinality(Q) <= MaxCloud}

\* new_cloud: channel -> begin timestamps
NewCloud(catalog) ==
    [ch \in {p[1] : p \in catalog} |-> {p[2] : p \in {q \in catalog : q[1] = ch}}]

\* every fetched catalog taken for a change
CloudUpdatedAlways(old, new) == DOMAIN new # {}

CloudUpdated(old, new) ==
    IF DOMAIN new # {} /\ (DOMAIN old = {} \/ DOMAIN new # DOMAIN old)
    THEN TRUE
    ELSE \E id \in DOMAIN new : new[id] # old[id]

\* the orders in which list(set(...)) can enumerate a set
Orders(S) ==
    {s \in [1..Cardinality(S) -> S] : \A i, j \in DOMAIN s : s[i] = s[j] => i = j}

\* merge(), first loop: the keys of new_cloud missing from a table are
\* appended to it, in the order the set difference enumerates them
RECURSIVE Additions(_, _, _)
Additions(epg, new, i) ==
    IF i > Len(ChannelOrder) THEN {epg}
    ELSE LET ch == ChannelOrder[i] IN
         IF ch \notin DOMAIN new THEN Additions(epg, new, i + 1)
         ELSE UNION {Additions(
                        [epg EXCEPT ![ch] =
                            @ \o [k \in DOMAIN ord |-> RawEntry(ord[k])]],
                        new, i + 1) :
                     ord \in Orders(new[ch] \ Keys(epg[ch]))}

\* merge(), second loop (not forced): the channels of _cloud are visited in
\* order; set(new_cloud[channel_id]) raises KeyError at the first channel
\* that new_cloud lacks
RECURSIVE Removals(_, _, _, _)
Removals(epg, old, new, i) ==
    IF i > Len(ChannelOrder) THEN [epgdata |-> epg, raised |-> FALSE]
    ELSE LET ch == ChannelOrder[i] IN
         IF ch \notin DOMAIN old THEN Removals(epg, old, new, i + 1)
         ELSE IF ch \notin DOMAIN new THEN [epgdata |-> epg, raised |-> TRUE]
         ELSE Removals(
                [epg EXCEPT ![ch] =
                    SelectSeq(epg[ch], LAMBDA e : e.start \notin (old[ch] \ new[ch]))],
                old, new, i + 1)

\* merge() adding only what the cloud set did not hold before
MergeOnlyNew(epg, old, new, forced) ==
    {IF forced THEN [epgdata |-> e, raised |-> FALSE]
     ELSE Removals(e, old, new, 1) :
        e \in Additions(epg,
                        [ch \in DOMAIN new |->
                            new[ch] \ (IF ch \in DOMAIN old THEN old[ch] ELSE {})],
                        1)}

\* merge() running its second loop on a forced call too
MergeAlwaysRemoves(epg, old, new, forced) ==
    {Removals(e, old, new, 1) : e \in Additions(epg, new, 1)}

Merge(epg, old, new, forced) ==
    {IF forced THEN [epgdata |-> e, raised |-> FALSE]
     ELSE Removals(e, old, new, 1) : e \in Additions(epg, new, 1)}

\* every way update_cloud(forced) can end, from the tables epg
CloudOutcomes(epg, forced, catalog) ==
    LET old == IF cloud_file.exists THEN cloud_file.data ELSE cloud
        new == NewCloud(catalog)
        updated == CloudUpdated(old, new)
        quiet == [epgdata |-> epg, cloud |-> old, cloud_file |-> cloud_file,
                  updated |-> FALSE, raised |-> FALSE, grabbed |-> FALSE]
    IN IF catalog = NoCatalog THEN {quiet}
       ELSE IF ~(updated \/ forced)
       THEN {[quiet EXCEPT !.grabbed = ~cloud_guide]}
       ELSE {IF m.raised
             THEN [quiet EXCEPT !.epgdata = m.epgdata, !.raised = TRUE]
             ELSE [epgdata |-> m.epgdata,
                   cloud |-> IF updated THEN new ELSE old,
                   cloud_file |-> IF updated THEN [exists |-> TRUE, data |-> new]
                                  ELSE cloud_file,
                   updated |-> updated,
                   raised |-> FALSE,
                   grabbed |-> updated \/ ~cloud_guide] :
             m \in Merge(epg, old, new, forced)}

\* the periodic task every(300, update_cloud), started after the first load
update_cloud(catalog) ==
    /\ DOMAIN epgdata # {}
    /\ \E o \in CloudOutcomes(epgdata, FALSE, catalog) :
        /\ epgdata' = o.epgdata
        /\ cloud' = o.cloud
        /\ cloud_file' = o.cloud_file
        /\ epg_last' = Last("update_cloud", "", NoUrl, 0, None,
                            o.updated, o.raised, o.grabbed, catalog)
    /\ UNCHANGED <<epg_file, channels, cloud_guide>>
    /\ UNCHANGED not_epg

\* ------------------------------------------------------------------------
\* reload_epg: both snapshots are loaded, then update_cloud(forced=True)
\* ------------------------------------------------------------------------
reload_epg(catalog) ==
    /\ \E o \in CloudOutcomes(epg_file, TRUE, catalog) :
        /\ epgdata' = o.epgdata
        /\ cloud' = o.cloud
        /\ cloud_file' = o.cloud_file
        /\ epg_last' = Last("reload_epg", "", NoUrl, 200, None,
                            o.updated, o.raised, o.grabbed, catalog)
    /\ channels' = [ch \in GuideChannels |-> ChannelName(ch)]
    /\ UNCHANGED <<epg_file, cloud_guide>>
    /\ UNCHANGED not_epg

\* tv_grab_es_movistartv --cloud_m3u / --cloud_recordings, spawned by an
\* earlier update_cloud and not waited for, writes cloud.m3u and cloud.xml
tv_grab_cloud ==
    /\ cloud_file.exists
    /\ ~cloud_guide
    /\ cloud_guide' = TRUE
    /\ UNCHANGED <<epg_file, epgdata, channels, cloud, cloud_file, epg_last>>
    /\ UNCHANGED not_epg

EpgInit ==
    /\ epg_file \in GuideSnapshots
    /\ epgdata = EmptyMap
    /\ channels = EmptyMap
    /\ cloud = EmptyMap
    /\ cloud_file = [exists |-> FALSE, data |-> EmptyMap]
    /\ cloud_guide = FALSE
    /\ epg_last = NoLast

EpgNext ==
    \/ \E catalog \in Catalogs : reload_epg(catalog)
    \/ \E catalog \in Catalogs : update_cloud(catalog)
    \/ \E channel_id \in GuideChannels \cup {UnknownChannel}, url \in Urls :
          handle_program_id(channel_id, url)
    \/ tv_grab_cloud

\* ------------------------------------------------------------------------
\* u7d.py: the RTSP negotiator
\* ------------------------------------------------------------------------
MaxKeepAlive == 2

NoClient == [url |-> "", ip |-> "", cseq |-> 0]
NoSession == <<>>
NoHeader == <<>>
NoCtl == ""
NoIp == "None"
UpstreamUrl == "rtsp://upstream/vod"
PeerAddress == "rtsp://peer/vod"

\* a Session header value is a string; ";" separates the identifier from
\* its parameters
SessionHeaders == {<<"a">>, <<"b", ";", "t">>}

\* str.split(';')[0]
RECURSIVE SessionId(_)
SessionId(h) ==
    IF h = <<>> \/ Head(h) = ";" THEN <<>>
    ELSE <<Head(h)>> \o SessionId(Tail(h))

\* What the server can answer. kind "ok": the status line is 200 OK;
\* "fail": the text holds no ' 200 OK'; "odd": the text holds ' 200 OK' but
\* the status line is another one. Only the answer to DESCRIBE carries a
\* session description (a body with an a=control:rtsp: line).
Raw(kind, sess, ctl) == [kind |-> kind, session |-> sess, ctl |-> ctl]
ServerResponses(method) ==
    IF method = "DESCRIBE"
    THEN {Raw("fail", NoHeader, NoCtl), Raw("ok", NoHeader, NoCtl),
          Raw("ok", NoHeader, PeerAddress)}
    ELSE IF method \in {"SETUP", "SETUP2"}
    THEN {Raw("fail", NoHeader, NoCtl)} \cup
         {Raw(k, h, NoCtl) : k \in {"ok", "odd"}, h \in SessionHeaders \cup {NoHeader}}
    ELSE {Raw("fail", NoHeader, NoCtl), Raw("ok", NoHeader, NoCtl)}

\* read_message: the Response it returns ...
read_message(raw) ==
    IF raw.kind = "fail"
    THEN [status |-> "other", session |-> NoHeader]
    ELSE [status |-> IF raw.kind = "ok" THEN "200 OK" ELSE "other",
          session |-> raw.session]
NoResponse == [status |-> "none", session |-> NoHeader]

\* ... and the peer address it leaves in self.ip
read_message_ip(c, raw) ==
    IF raw.kind # "fail" /\ raw.ctl # NoCtl THEN raw.ctl ELSE c.ip

\* send_request without the exchange of url and ip on SETUP2
send_request_no_swap(c, method, headers) ==
    [method |-> method,
     wire |-> IF method = "SETUP2" THEN "SETUP" ELSE method,
     url |-> IF method = "OPTIONS" THEN "*" ELSE c.url,
     cseq |-> c.cseq,
     session |-> headers,
     body |-> IF method = "GET_PARAMETER" /\ needs_position THEN "position" ELSE "",
     client |-> [c EXCEPT !.cseq = @ + 1]]

\* send_request putting the body on every GET_PARAMETER
send_request_body_always(c, method, headers) ==
    LET swapped == IF method = "SETUP2"
                   THEN [c EXCEPT !.url = c.ip, !.ip = c.url] ELSE c
    IN [method |-> method,
        wire |-> IF method = "SETUP2" THEN "SETUP" ELSE method,
        url |-> IF method = "OPTIONS" THEN "*" ELSE swapped.url,
        cseq |-> c.cseq,
        session |-> headers,
        body |-> IF method = "GET_PARAMETER" THEN "position" ELSE "",
        client |-> [swapped EXCEPT !.cseq = @ + 1]]

\* send_request, up to the moment the request is handed to the socket: the
\* request as it goes on the wire and the client it leaves
send_request(c, method, headers) ==
    LET swapped == IF method = "SETUP2"
                   THEN [c EXCEPT !.url = c.ip, !.ip = c.url] ELSE c
    IN [method |-> method,
        wire |-> IF method = "SETUP2" THEN "SETUP" ELSE method,
        url |-> IF method = "OPTIONS" THEN "*" ELSE swapped.url,
        cseq |-> c.cseq,
        session |-> headers,
        body |-> IF method = "GET_PARAMETER" /\ needs_position THEN "position" ELSE "",
        client |-> [swapped EXCEPT !.cseq = @ + 1]]

\* the entry of reqs for a request, the response read for it and self.ip
\* after it
Logged(q, resp, ip) ==
    [method |-> q.method, wire |-> q.wire, url |-> q.url, cseq |-> q.cseq,
     session |-> q.session, body |-> q.body,
     status |-> resp.status, resp_session |-> resp.session, ip |-> ip]

\* one round trip: send_request(method, headers) answered by raw
Exchange(method, headers, raw) ==
    LET q == send_request(client, method, headers)
    IN /\ reqs' = Append(reqs, Logged(q, read_message(raw),
                                      read_message_ip(q.client, raw)))
       /\ client' = [q.client EXCEPT !.ip = read_message_ip(q.client, raw)]

\* the call of send_request(method, headers) cut short by an exception or a
\* KeyboardInterrupt in send() or recv()
Broken(method, headers) ==
    LET q == send_request(client, method, headers)
    IN /\ reqs' = Append(reqs, Logged(q, NoResponse, q.client.ip))
       /\ client' = q.client

\* the headers each request carries besides CSeq and User-Agent
HeadersAt(pc) ==
    IF pc \in {"GET_PARAMETER", "TEARDOWN"} THEN session
    ELSE IF pc = "PLAY" THEN SessionId(setup_r.session)
    ELSE NoHeader

\* getCatchUpUrl: resultCode 0 and a url, or another resultCode
Lookup ==
    /\ npc = "lookup"
    /\ \E resultCode \in {0, 1} :
         IF resultCode # 0
         THEN npc' = "finally" /\ ending' = "return"
         ELSE npc' = "connect" /\ UNCHANGED ending
    /\ UNCHANGED <<client, session, needs_position, setup_r, reqs>>
    /\ UNCHANGED not_rtsp

\* s.connect(); client = RtspClient(s, url)
Connect ==
    /\ npc = "connect"
    /\ npc' = "OPTIONS"
    /\ client' = [url |-> UpstreamUrl, ip |-> NoIp, cseq |-> 1]
    /\ UNCHANGED <<session, needs_position, setup_r, reqs, ending>>
    /\ UNCHANGED not_rtsp

Options ==
    /\ npc = "OPTIONS"
    /\ \E raw \in ServerResponses("OPTIONS") : Exchange("OPTIONS", NoHeader, raw)
    /\ npc' = "DESCRIBE"
    /\ UNCHANGED <<session, needs_position, setup_r, ending>>
    /\ UNCHANGED not_rtsp

Describe ==
    /\ npc = "DESCRIBE"
    /\ \E raw \in ServerResponses("DESCRIBE") : Exchange("DESCRIBE", NoHeader, raw)
    /\ npc' = "SETUP"
    /\ UNCHANGED <<session, needs_position, setup_r, ending>>
    /\ UNCHANGED not_rtsp

\* if r.status != '200 OK': needs_position = True, then SETUP2
AfterSetup(r) == IF r.status # "200 OK" THEN "SETUP2" ELSE "PLAY"

\* the status of the SETUP2 response not looked at
AfterSetup2Unchecked(r) == "PLAY"

\* if r.status != '200 OK': return
AfterSetup2(r) == IF r.status # "200 OK" THEN "finally" ELSE "PLAY"

Setup ==
    /\ npc = "SETUP"
    /\ \E raw \in ServerResponses("SETUP") :
        /\ Exchange("SETUP", NoHeader, raw)
        /\ setup_r' = read_message(raw)
        /\ npc' = AfterSetup(read_message(raw))
        /\ needs_position' = (AfterSetup(read_message(raw)) = "SETUP2")
    /\ UNCHANGED <<session, ending>>
    /\ UNCHANGED not_rtsp

Setup2 ==
    /\ npc = "SETUP2"
    /\ \E raw \in ServerResponses("SETUP2") :
        /\ Exchange("SETUP2", NoHeader, raw)
        /\ setup_r' = read_message(raw)
        /\ npc' = AfterSetup2(read_message(raw))
        /\ ending' = IF AfterSetup2(read_message(raw)) = "finally"
                     THEN "return" ELSE ending
    /\ UNCHANGED <<session, needs_position>>
    /\ UNCHANGED not_rtsp

\* play['Session'] = r.headers['Session'].split(';')[0] raises KeyError when
\* the response has no Session header; otherwise PLAY is sent, its status is
\* not looked at, and session is set
Play ==
    /\ npc = "PLAY"
    /\ IF setup_r.session = NoHeader
       THEN /\ npc' = "finally" /\ ending' = "exception"
            /\ UNCHANGED <<client, session, reqs>>
       ELSE /\ \E raw \in ServerResponses("PLAY") :
                 Exchange("PLAY", HeadersAt("PLAY"), raw)
            /\ session' = HeadersAt("PLAY")
            /\ npc' = "GET_PARAMETER"
            /\ UNCHANGED ending
    /\ UNCHANGED <<needs_position, setup_r>>
    /\ UNCHANGED not_rtsp

KeepAlives == Cardinality({i \in DOMAIN reqs : reqs[i].method = "GET_PARAMETER"})

\* while True: time.sleep(30); send_request('GET_PARAMETER', get_parameter)
KeepAlive ==
    /\ npc = "GET_PARAMETER"
    /\ KeepAlives < MaxKeepAlive
    /\ \E raw \in ServerResponses("GET_PARAMETER") :
         Exchange("GET_PARAMETER", HeadersAt("GET_PARAMETER"), raw)
    /\ UNCHANGED <<npc, session, needs_position, setup_r, ending>>
    /\ UNCHANGED not_rtsp

RequestSteps == {"OPTIONS", "DESCRIBE", "SETUP", "SETUP2", "PLAY"}

\* An exception (socket error or timeout, a response that does not parse) or
\* a KeyboardInterrupt reaches main() while it is blocked: in urlopen or
\* connect, in the send or recv of a request, or in the sleep of the loop.
Cut(how) ==
    /\ npc \in {"lookup", "connect", "GET_PARAMETER"} \cup RequestSteps
    /\ npc = "PLAY" => setup_r.session # NoHeader
    /\ \/ /\ npc \in RequestSteps
          /\ Broken(npc, HeadersAt(npc))
          /\ UNCHANGED session
       \/ /\ npc = "GET_PARAMETER"
          /\ how = "exception"
          /\ Broken(npc, HeadersAt(npc))
          /\ UNCHANGED session
       \/ /\ npc \in {"lookup", "connect", "GET_PARAMETER"}
          /\ npc = "GET_PARAMETER" => how = "interrupt"
          /\ UNCHANGED <<client, reqs, session>>
    /\ npc' = "finally"
    /\ ending' = how
    /\ UNCHANGED <<needs_position, setup_r>>
    /\ UNCHANGED not_rtsp

Interrupted == Cut("interrupt")
Failed == Cut("exception")

\* finally: if client and session: TEARDOWN, whose status is only printed
Finally ==
    /\ npc = "finally"
    /\ IF client # NoClient /\ session # NoSession
       THEN \/ /\ \E raw \in ServerResponses("TEARDOWN") :
                    Exchange("TEARDOWN", HeadersAt("TEARDOWN"), raw)
               /\ UNCHANGED ending
            \/ /\ \E how \in {"interrupt", "exception"} :
                    Broken("TEARDOWN", HeadersAt("TEARDOWN")) /\ ending' = how
       ELSE UNCHANGED <<client, reqs, ending>>
    /\ npc' = "done"
    /\ UNCHANGED <<session, needs_position, setup_r>>
    /\ UNCHANGED not_rtsp

RtspInit ==
    /\ npc = "lookup"
    /\ client = NoClient
    /\ session = NoSession
    /\ needs_position = FALSE
    /\ setup_r = NoResponse
    /\ reqs = <<>>
    /\ ending = "none"

RtspNext ==
    \/ Lookup \/ Connect \/ Options \/ Describe \/ Setup \/ Setup2
    \/ Play \/ KeepAlive \/ Interrupted \/ Failed \/ Finally

RtspIdle ==
    /\ npc = "off" /\ client = NoClient /\ session = NoSession
    /\ needs_position = FALSE /\ setup_r = NoResponse /\ reqs = <<>>
    /\ ending = "none"

\* ------------------------------------------------------------------------
\* movistar-u7d.py: handle_rtp, one request
\* ------------------------------------------------------------------------
MaxDatagrams == 3

NoQuery == [name |-> "", value |-> ""]
Requests ==
    [url : {"239.0.5.185:8208", "video-0110.ts", "other"},
     query : {NoQuery, [name |-> "record", value |-> "120"],
              [name |-> "record", value |-> "x"], [name |-> "vo", value |-> "1"]}]
Payloads == {"d1", "d2"}

NoCmd == [channel_id |-> "", program_id |-> "", offset |-> "", time |-> ""]
NoAnswer == [status |-> 0, kind |-> "none", body |-> NoCmd]
Answer(status, kind) == [status |-> status, kind |-> kind, body |-> NoCmd]

IsNumeric(v) == v \in {"120"}
IsRecord == request.query.name = "record"

\* if url.startswith('239'): redirect; elif url.startswith('video-'): ...;
\* else: 404
Route ==
    /\ hpc = "start"
    /\ IF request.url = "239.0.5.185:8208"
       THEN hpc' = "done" /\ answer' = Answer(302, "redirect")
       ELSE IF request.url = "video-0110.ts"
       THEN hpc' = "resolve" /\ UNCHANGED answer
       ELSE hpc' = "done" /\ answer' = Answer(404, "URL not understood")
    /\ UNCHANGED <<request, cmd, u7d, sigints, absorbed, survived, resp_open,
                   bound, received, chunks>>
    /\ UNCHANGED not_rtp

\* The EPG service is asked for the program: it answers another status than
\* 200, the request or the reading of the answer raises, or the answer names
\* a program (none when program_id is empty). With a program the relay port
\* is looked up and the command line is built; a record query adds -t time.
Resolve ==
    /\ hpc = "resolve"
    /\ \E outcome \in {"status", "exception", "no program", "program"} :
        IF outcome = "program"
        THEN /\ hpc' = "spawn"
             /\ cmd' = [channel_id |-> "c1", program_id |-> "101", offset |-> "9",
                        time |-> IF IsRecord
                                 THEN (IF IsNumeric(request.query.value)
                                       THEN request.query.value ELSE "0")
                                 ELSE ""]
             /\ UNCHANGED answer
        ELSE /\ hpc' = "done"
             /\ answer' = Answer(404, "not found")
             /\ UNCHANGED cmd
    /\ UNCHANGED <<request, u7d, sigints, absorbed, survived, resp_open,
                   bound, received, chunks>>
    /\ UNCHANGED not_rtp

\* u7d = await asyncio.create_subprocess_exec(*cmd)
Spawn ==
    /\ hpc = "spawn"
    /\ \/ /\ u7d' = "running" /\ hpc' = "wait" /\ UNCHANGED answer
       \/ /\ hpc' = "done" /\ answer' = Answer(500, "unhandled") /\ UNCHANGED u7d
    /\ UNCHANGED <<request, cmd, sigints, absorbed, survived, resp_open,
                   bound, received, chunks>>
    /\ UNCHANGED not_rtp

\* the unit ends on its own
UnitExits ==
    /\ u7d = "running"
    /\ u7d' = "exited"
    /\ UNCHANGED <<hpc, request, cmd, sigints, absorbed, survived, resp_open,
                   bound, received, chunks, answer>>
    /\ UNCHANGED not_rtp

\* a record request treated as a live one after the 300 ms
WaitedRecordStreams ==
    IF u7d = "exited"
    THEN /\ hpc' = "done"
         /\ answer' = Answer(404, "NOT AVAILABLE")
         /\ UNCHANGED survived
    ELSE /\ hpc' = "hostname"
         /\ survived' = TRUE
         /\ UNCHANGED answer

\* the 300 ms check going on although the unit has ended
WaitedIgnoringExit ==
    IF IsRecord
    THEN /\ hpc' = "done"
         /\ answer' = [status |-> 200, kind |-> "OK", body |-> cmd]
         /\ survived' = (u7d = "running")
    ELSE /\ hpc' = "hostname"
         /\ survived' = (u7d = "running")
         /\ UNCHANGED answer

\* r = await asyncio.wait_for(u7d.wait(), 0.3): the unit has ended, 404; or
\* TimeoutError, and then the acknowledgement of a record request
Waited ==
    IF u7d = "exited"
    THEN /\ hpc' = "done"
         /\ answer' = Answer(404, "NOT AVAILABLE")
         /\ UNCHANGED survived
    ELSE IF IsRecord
    THEN /\ hpc' = "done"
         /\ answer' = [status |-> 200, kind |-> "OK", body |-> cmd]
         /\ survived' = TRUE
    ELSE /\ hpc' = "hostname"
         /\ survived' = TRUE
         /\ UNCHANGED answer

Wait ==
    /\ hpc = "wait"
    /\ Waited
    /\ UNCHANGED <<request, cmd, u7d, sigints, absorbed, resp_open,
                   bound, received, chunks>>
    /\ UNCHANGED not_rtp

\* host = socket.gethostbyname(socket.gethostname()), before the try: an
\* error leaves the handler at once
Hostname ==
    /\ hpc = "hostname"
    /\ \/ hpc' = "respond" /\ UNCHANGED answer
       \/ hpc' = "done" /\ answer' = Answer(500, "unhandled")
    /\ UNCHANGED <<request, cmd, u7d, sigints, absorbed, survived, resp_open,
                   bound, received, chunks>>
    /\ UNCHANGED not_rtp

\* how an exception raised inside the try leaves it: except RuntimeError,
\* except Exception, or (CancelledError, the client is gone) neither
Caught(ex) ==
    IF ex = "RuntimeError" THEN Answer(204, "empty")
    ELSE IF ex = "Exception" THEN Answer(500, "Stream loop excepted")
    ELSE Answer(0, "cancelled")
Exceptions == {"RuntimeError", "Exception", "CancelledError"}

\* resp = await request.respond()
Respond ==
    /\ hpc = "respond"
    /\ \/ hpc' = "bind" /\ resp_open' = TRUE /\ UNCHANGED answer
       \/ \E ex \in Exceptions :
            hpc' = "finally" /\ answer' = Caught(ex) /\ UNCHANGED resp_open
    /\ UNCHANGED <<request, cmd, u7d, sigints, absorbed, survived,
                   bound, received, chunks>>
    /\ UNCHANGED not_rtp

\* await asyncio_dgram.bind((host, int(client_port)))
Bind ==
    /\ hpc = "bind"
    /\ \/ hpc' = "recv" /\ bound' = TRUE /\ UNCHANGED answer
       \/ \E ex \in Exceptions :
            hpc' = "finally" /\ answer' = Caught(ex) /\ UNCHANGED bound
    /\ UNCHANGED <<request, cmd, u7d, sigints, absorbed, survived, resp_open,
                   received, chunks>>
    /\ UNCHANGED not_rtp

\* data, remote_addr = await stream.recv()
Recv ==
    /\ hpc = "recv"
    /\ \/ /\ Len(received) < MaxDatagrams
          /\ \E data \in Payloads \cup {""} : received' = Append(received, data)
          /\ hpc' = "send"
          /\ UNCHANGED answer
       \/ \E ex \in Exceptions :
            hpc' = "finally" /\ answer' = Caught(ex) /\ UNCHANGED received
    /\ UNCHANGED <<request, cmd, u7d, sigints, absorbed, survived, resp_open,
                   bound, chunks>>
    /\ UNCHANGED not_rtp

\* the relay loop going on after the zero-length datagram
SentNoBreak(data) == "recv"

\* if not data: await resp.send('', True); break
\* await resp.send(data, False)
Sent(data) == IF data = "" THEN "finally" ELSE "recv"

Send ==
    /\ hpc = "send"
    /\ LET data == received[Len(received)]
       IN /\ chunks' = Append(chunks, [data |-> data, end_stream |-> (data = "")])
          /\ \/ /\ hpc' = Sent(data)
                /\ answer' = IF Sent(data) = "finally" THEN Answer(200, "resp")
                             ELSE answer
             \/ \E ex \in Exceptions : hpc' = "finally" /\ answer' = Caught(ex)
    /\ UNCHANGED <<request, cmd, u7d, sigints, absorbed, survived, resp_open,
                   bound, received>>
    /\ UNCHANGED not_rtp

\* finally: u7d.send_signal(signal.SIGINT); except ProcessLookupError: pass
HFinally ==
    /\ hpc = "finally"
    /\ sigints' = sigints + 1
    /\ IF u7d = "exited"
       THEN absorbed' = absorbed + 1 /\ UNCHANGED u7d
       ELSE u7d' = "interrupted" /\ UNCHANGED absorbed
    /\ hpc' = "done"
    /\ UNCHANGED <<request, cmd, survived, resp_open, bound, received, chunks, answer>>
    /\ UNCHANGED not_rtp

RtpStart(reqs_) ==
    /\ hpc = "start"
    /\ request \in reqs_
    /\ cmd = NoCmd
    /\ u7d = "none"
    /\ sigints = 0
    /\ absorbed = 0
    /\ survived = FALSE
    /\ resp_open = FALSE
    /\ bound = FALSE
    /\ received = <<>>
    /\ chunks = <<>>
    /\ answer = NoAnswer

RtpNext ==
    \/ Route \/ Resolve \/ Spawn \/ UnitExits \/ Wait \/ Hostname
    \/ Respond \/ Bind \/ Recv \/ Send \/ HFinally

\* ------------------------------------------------------------------------
\* movistar_epg.py: timers_check, one scan cycle
\* ------------------------------------------------------------------------
MaxEvents == 2
MaxThreads == 2

Titles == {"A", "B"}
\* a rule of timers.json: the titles its regular expression matches, and
\* whether its language is VO; the lists of rules of a channel
RuleLists ==
    {<<[titles |-> {"A"}, vo |-> FALSE]>>,
     <<[titles |-> {"A", "B"}, vo |-> TRUE]>>,
     <<[titles |-> {"A"}, vo |-> FALSE], [titles |-> {"A", "B"}, vo |-> TRUE]>>}

\* the events of a channel as the scan reads them from _epgdata: timestamp
\* and full_title, in the order of the table. The events of the guide come
\* first, in increasing order; a recording merged from the cloud catalog
\* comes after them, whatever its timestamp, and has no full_title.
RECURSIVE StampSeq(_)
StampSeq(S) == IF S = {} THEN <<>> ELSE <<Min(S)>> \o StampSeq(S \ {Min(S)})
GuideTitled ==
    UNION {{[i \in 1..Cardinality(S) |->
                [timestamp |-> StampSeq(S)[i], full_title |-> f[StampSeq(S)[i]],
                 raw |-> FALSE]] :
            f \in [S -> Titles]} : S \in SUBSET (1..MaxEvents)}
TitledTables ==
    GuideTitled
    \cup {Append(tbl, [timestamp |-> ts, full_title |-> "", raw |-> TRUE]) :
            <<tbl, ts>> \in {p \in GuideTitled \X (1..MaxEvents) :
                               \A i \in DOMAIN p[1] : p[1][i].timestamp # p[2]}}

\* the second channel of timers.json: not in it, in it but not in _epgdata,
\* or in both with one event
SecondChannel == {"no rule", "no table", "both"}
\* the processes pgrep lists: how many, and the titles whose file they name
FfmpegProcs ==
    {[n |-> n, titles |-> T] : n \in 0..MaxThreads, T \in {{}, {"A"}}} \
    {[n |-> 0, titles |-> {"A"}]}

TimerWorld(timers, tbl, rules, second, limit, recs, procs) ==
    [timers |-> timers,
     table |-> [ch \in {"c1"} \cup (IF second = "both" THEN {"c2"} ELSE {}) |->
                  IF ch = "c1" THEN tbl
                  ELSE <<[timestamp |-> 1, full_title |-> "A", raw |-> FALSE]>>],
     match |-> [ch \in {"c1"} \cup (IF second = "no rule" THEN {} ELSE {"c2"}) |->
                  IF ch = "c1" THEN rules
                  ELSE <<[titles |-> {"A", "B"}, vo |-> FALSE]>>],
     limit |-> limit,
     recordings |-> recs,
     ffmpeg |-> procs]
TimerWorlds ==
    {TimerWorld("missing", <<>>, <<>>, "no rule", 1, EmptyMap, [n |-> 0, titles |-> {}])}
    \cup
    {TimerWorld("ok", tbl, rules, second, limit, recs, procs) :
        tbl \in TitledTables, rules \in RuleLists, second \in SecondChannel,
        limit \in {1, MaxEvents},
        recs \in {EmptyMap, [ch \in {"c1"} |-> [titles |-> {"B"}, keys |-> {1}]]},
        procs \in FfmpegProcs}

\* for channel_id in _timers['match']
MatchOrder(w) == SelectSeq(ChannelOrder, LAMBDA ch : ch \in DOMAIN w.match)

\* the next channel from c on that is in _epgdata and has events to visit
RECURSIVE Seek(_, _)
Seek(w, c) ==
    IF c > Len(MatchOrder(w)) THEN c
    ELSE LET ch == MatchOrder(w)[c]
         IN IF ch \notin DOMAIN w.table \/ Len(w.table[ch]) = 0
            THEN Seek(w, c + 1) ELSE c

NoPos == [c |-> 0, e |-> 0, r |-> 0]
\* the loops move on: next rule, else next event (reversed), else next channel
Advance(w, pos) ==
    LET ch == MatchOrder(w)[pos.c]
    IN IF pos.r < Len(w.match[ch]) THEN [pos EXCEPT !.r = @ + 1]
       ELSE IF pos.e < Len(w.table[ch]) THEN [c |-> pos.c, e |-> pos.e + 1, r |-> 1]
       ELSE [c |-> Seek(w, pos.c + 1), e |-> 1, r |-> 1]
ScanOver(w, pos) == pos.c > Len(MatchOrder(w))

\* the cap test with the comparison off by one
AtCapStrict(n) == recording_threads # 0 /\ n > recording_threads

\* if RECORDING_THREADS and not nr_procs < RECORDING_THREADS
AtCap(n) == recording_threads # 0 /\ ~(n < recording_threads)

\* the test of an event against a rule without the titles of this cycle
EligibleUnlessAdded(w, ch, ev, rule) ==
    /\ ev.timestamp <= w.limit
    /\ ev.full_title \in rule.titles
    /\ ev.full_title \notin w.ffmpeg.titles
    /\ ev.full_title \notin t_files
    /\ \/ ch \notin DOMAIN w.recordings
       \/ /\ ev.full_title \notin w.recordings[ch].titles
          /\ ev.timestamp \notin w.recordings[ch].keys

\* int(timestamp) > _time_limit: continue; re.match(timer_match, title) and
\* title not in timers_added and filename not in str(_ffmpeg) and not
\* os.path.exists(filename) and (channel_id not in _recordings or (title not
\* in repr(_recordings[channel_id]) and timestamp not in
\* _recordings[channel_id]))
Eligible(w, ch, ev, rule) ==
    /\ ev.timestamp <= w.limit
    /\ ev.full_title \in rule.titles
    /\ ev.full_title \notin timers_added
    /\ ev.full_title \notin w.ffmpeg.titles
    /\ ev.full_title \notin t_files
    /\ \/ ch \notin DOMAIN w.recordings
       \/ /\ ev.full_title \notin w.recordings[ch].titles
          /\ ev.timestamp \notin w.recordings[ch].keys

\* what the orchestrator answers to a recording request; 0: the request raised
RecordAnswers == {200, 503, 404, 0}

\* timers_check up to the loops: timers.json and recordings.json are read,
\* the ffmpeg processes are counted and the cap is tested
timers_check ==
    /\ tpc = "idle"
    /\ nr_procs' = IF t_world.timers = "ok" THEN t_world.ffmpeg.n ELSE nr_procs
    /\ IF t_world.timers # "ok" \/ AtCap(t_world.ffmpeg.n)
          \/ ScanOver(t_world, [c |-> Seek(t_world, 1), e |-> 1, r |-> 1])
       THEN tpc' = "done" /\ UNCHANGED t_pos
       ELSE tpc' = "scan" /\ t_pos' = [c |-> Seek(t_world, 1), e |-> 1, r |-> 1]
    /\ UNCHANGED <<recording_threads, t_delayed, t_world, timers_added, t_files, t_log>>
    /\ UNCHANGED not_tmr

\* one pass of the innermost loop: an event of a channel against a rule,
\* and the recording request when they match. Reading ['full_title'] of an
\* event that has none raises KeyError, which ends timers_check
timers_visit ==
    /\ tpc = "scan"
    /\ LET ch == MatchOrder(t_world)[t_pos.c]
           tbl == t_world.table[ch]
           ev == tbl[Len(tbl) - t_pos.e + 1]
           rule == t_world.match[ch][t_pos.r]
           next == Advance(t_world, t_pos)
           on(added) == /\ t_pos' = next
                        /\ tpc' = IF ScanOver(t_world, next) THEN "done" ELSE "scan"
                        /\ timers_added' = IF next.c # t_pos.c THEN {} ELSE added
       IN IF ev.timestamp <= t_world.limit /\ ev.raw
          THEN /\ tpc' = "raised"
               /\ UNCHANGED <<t_pos, timers_added, nr_procs, t_files, t_log>>
          ELSE IF ~Eligible(t_world, ch, ev, rule)
          THEN on(timers_added) /\ UNCHANGED <<nr_procs, t_files, t_log>>
          ELSE \E status \in RecordAnswers :
                /\ t_log' = Append(t_log, [channel_id |-> ch, timestamp |-> ev.timestamp,
                                           title |-> ev.full_title, vo |-> rule.vo,
                                           status |-> status])
                /\ IF status = 200
                   THEN /\ nr_procs' = nr_procs + 1
                        /\ \E made \in SUBSET {ev.full_title} : t_files' = t_files \cup made
                        /\ IF AtCap(nr_procs + 1)
                           THEN /\ tpc' = "done"
                                /\ timers_added' = timers_added \cup {ev.full_title}
                                /\ UNCHANGED t_pos
                           ELSE on(timers_added \cup {ev.full_title})
                   ELSE IF status = 503
                   THEN tpc' = "done" /\ UNCHANGED <<t_pos, timers_added, nr_procs, t_files>>
                   ELSE on(timers_added) /\ UNCHANGED <<nr_procs, t_files>>
    /\ UNCHANGED <<recording_threads, t_delayed, t_world>>
    /\ UNCHANGED not_tmr

\* timers_check_delayed: with the network signal file RECORDING_THREADS
\* becomes 0
timers_check_delayed ==
    /\ ~t_delayed
    /\ t_delayed' = TRUE
    /\ \E fsignal \in BOOLEAN :
         recording_threads' = IF fsignal THEN 0 ELSE recording_threads
    /\ UNCHANGED <<tpc, t_world, t_pos, timers_added, nr_procs, t_files, t_log>>
    /\ UNCHANGED not_tmr

TmrInit ==
    /\ tpc = "idle"
    /\ recording_threads \in 0..MaxThreads
    /\ t_delayed = FALSE
    /\ t_world \in TimerWorlds
    /\ t_pos = NoPos
    /\ timers_added = {}
    /\ nr_procs = 0
    /\ t_files = {}
    /\ t_log = <<>>

TmrNext == timers_check \/ timers_visit \/ timers_check_delayed

TmrIdle ==
    /\ tpc = "off"
    /\ recording_threads = 0
    /\ t_delayed = TRUE
    /\ t_world = TimerWorld("missing", <<>>, <<>>, "no rule", 1, EmptyMap,
                            [n |-> 0, titles |-> {}])
    /\ t_pos = NoPos
    /\ timers_added = {}
    /\ nr_procs = 0
    /\ t_files = {}
    /\ t_log = <<>>

\* ------------------------------------------------------------------------
\* handle_rtp asking the EPG service of movistar_epg.py
\* ------------------------------------------------------------------------
\* the route handle_rtp asks: f'{SANIC_EPG_URL}/get_program_id/{channel_id}/{url}'
HandlerEpgRoute == "get_program_id"

\* the keys of the JSON object get_program_id returns (none for null)
ResultKeys(body) ==
    IF body.kind = "ok" THEN {"name", "program_id", "duration", "offset"} ELSE {}

\* GET /<route>/<channel_id>/<url> on the EPG service: /program_id/ is
\* handle_program_id; no other route takes this request
EpgGet(route, channel_id, url) ==
    IF route = "program_id"
    THEN LET r == get_program_id(channel_id, url)
         IN [status |-> ProgramIdStatus(r), body |-> r]
    ELSE [status |-> 404, body |-> None]

\* requests for a recorded program: the channel, and the url as
\* flussonic_regex reads it
PipeRequests ==
    [url : {"video-0110.ts", "other"},
     query : {NoQuery, [name |-> "record", value |-> "120"]},
     channel_id : {"c1", UnknownChannel},
     flussonic : [start : Timestamps, dur : {NoDur}]]

\* lines 112-143 with the EPG service answering: r.status != 200 is a 404;
\* r['channel_id'], r['program_id'], r['offset'] raise KeyError (TypeError
\* on null) when the key is missing, which leaves program_id None: a 404
ResolveEpg ==
    /\ hpc = "resolve"
    /\ LET r == EpgGet(HandlerEpgRoute, request.channel_id, request.flussonic)
       IN IF /\ r.status = 200
             /\ {"channel_id", "program_id", "offset"} \subseteq ResultKeys(r.body)
             /\ r.body.program_id # 0
          THEN /\ hpc' = "spawn"
               /\ cmd' = [channel_id |-> request.channel_id,
                          program_id |-> r.body.program_id,
                          offset |-> r.body.offset,
                          time |-> IF IsRecord
                                   THEN (IF IsNumeric(request.query.value)
                                         THEN request.query.value ELSE "0")
                                   ELSE ""]
               /\ UNCHANGED answer
          ELSE /\ hpc' = "done"
               /\ answer' = Answer(404, "not found")
               /\ UNCHANGED cmd
    /\ UNCHANGED <<request, u7d, sigints, absorbed, survived, resp_open,
                   bound, received, chunks>>
    /\ UNCHANGED not_rtp

\* the EPG service loads its store while the orchestrator serves a request
PipeNext ==
    \/ \E catalog \in Catalogs : reload_epg(catalog)
    \/ Route
    \/ ResolveEpg

\* ------------------------------------------------------------------------
\* movistar_epg.py: reload_epg, update_epg and update_cloud as coroutines
\* of the asyncio tasks, with epg_lock and tvgrab_lock
\* ------------------------------------------------------------------------
\* how many times the tasks are started, all together
MaxRuns == 2

\* range(5) of update_epg
Attempts == 5

\* every(3600, update_epg), the /reload_epg request, every(300, update_cloud)
Tasks == {"hourly", "demand", "cloud"}

\* a snapshot file: missing, unparsable (ValueError, TypeError), parsable
\* without the 'data' key (KeyError), or the generation it holds
Missing == 0
Corrupt == -1
Headless == -2

NoHolder == <<>>

Frame(fn, pc, forced) ==
    [fn |-> fn, pc |-> pc, i |-> 0, ok |-> 0, reloads |-> 0, forced |-> forced]

Depth(t) == Len(stacks[t])
Top(t) == stacks[t][Len(stacks[t])]
Running(t, fn, pc) == Depth(t) > 0 /\ Top(t).fn = fn /\ Top(t).pc = pc
At(f, pc) == [f EXCEPT !.pc = pc]
\* the innermost coroutine goes on as f
Goes(t, f) == [stacks EXCEPT ![t] = [@ EXCEPT ![Len(@)] = f]]
\* the innermost coroutine awaits callee and will resume as f
Awaits(t, f, callee) ==
    [stacks EXCEPT ![t] = Append([@ EXCEPT ![Len(@)] = f], callee)]
\* the innermost coroutine returns to the one awaiting it
Returns(t) == [stacks EXCEPT ![t] = SubSeq(@, 1, Len(@) - 1)]

Me(t) == <<t, Depth(t)>>
Free(l) == locks[l] = NoHolder
Acquired(t, l) == [locks EXCEPT ![l] = Me(t)]
\* leaving the async with blocks of the innermost coroutine
Released(t) == [l \in DOMAIN locks |-> IF locks[l] = Me(t) THEN NoHolder ELSE locks[l]]

NoOutcome == [task |-> "", attempts |-> 0, ok |-> 0, reloads |-> 0, raised |-> FALSE]

Outcome(t, f, raised) ==
    [task |-> t, attempts |-> f.i, ok |-> f.ok, reloads |-> f.reloads, raised |-> raised]

\* what a grabber run that exits 0 leaves in the cache
GrabOutputs(g) ==
    [epg_data : {g, Headless}, epg_metadata : {g}, guide : {TRUE}]

\* every(3600, update_epg): the next hourly cycle
every_update_epg ==
    /\ stacks["hourly"] = <<>>
    /\ ~dead["hourly"]
    /\ runs < MaxRuns
    /\ stacks' = [stacks EXCEPT !["hourly"] = <<Frame("update_epg", "loop", FALSE)>>]
    /\ runs' = runs + 1
    /\ UNCHANGED <<locks, dead, snapshots, store, generation, finished, seen>>
    /\ UNCHANGED not_task

\* GET /reload_epg
handle_reload_epg ==
    /\ stacks["demand"] = <<>>
    /\ runs < MaxRuns
    /\ stacks' = [stacks EXCEPT !["demand"] = <<Frame("reload_epg", "check", FALSE)>>]
    /\ runs' = runs + 1
    /\ UNCHANGED <<locks, dead, snapshots, store, generation, finished, seen>>
    /\ UNCHANGED not_task

\* every(300, update_cloud)
every_update_cloud ==
    /\ stacks["cloud"] = <<>>
    /\ ~dead["cloud"]
    /\ runs < MaxRuns
    /\ stacks' = [stacks EXCEPT !["cloud"] = <<Frame("update_cloud", "fetch", FALSE)>>]
    /\ runs' = runs + 1
    /\ UNCHANGED <<locks, dead, snapshots, store, generation, finished, seen>>
    /\ UNCHANGED not_task

\* lines 508-509: the loop is over after 5 turns; otherwise wait for
\* tvgrab_lock and start the grabber
update_epg_loop(t) ==
    /\ Running(t, "update_epg", "loop")
    /\ IF Top(t).i = Attempts
       THEN /\ stacks' = Returns(t)
            /\ finished' = Outcome(t, Top(t), FALSE)
            /\ UNCHANGED locks
       ELSE /\ Free("tvgrab_lock")
            /\ locks' = Acquired(t, "tvgrab_lock")
            /\ stacks' = Goes(t, At(Top(t), "spawn"))
            /\ UNCHANGED finished
    /\ UNCHANGED <<runs, dead, snapshots, store, generation, seen>>
    /\ UNCHANGED not_task

\* lines 510-513: create_subprocess_exec has the grabber running
update_epg_spawn(t) ==
    /\ Running(t, "update_epg", "spawn")
    /\ stacks' = Goes(t, At(Top(t), "wait"))
    /\ UNCHANGED <<locks, runs, dead, snapshots, store, generation, finished, seen>>
    /\ UNCHANGED not_task

\* the loop after a grabber run that left return code rc
AfterGrabAlways(rc) == "sleep"

AfterGrab(rc) == IF rc # 0 THEN "sleep" ELSE "break"

\* lines 514-520: the grabber exits; tvgrab_lock is released; a non-zero
\* return code sleeps 15s, a zero one awaits reload_epg
update_epg_wait(t) ==
    /\ Running(t, "update_epg", "wait")
    /\ locks' = Released(t)
    /\ \E rc \in {0, 1} :
          LET f == [Top(t) EXCEPT !.i = @ + 1, !.pc = AfterGrab(rc)]
          IN IF rc # 0
             THEN /\ stacks' = Goes(t, f)
                  /\ UNCHANGED <<snapshots, generation>>
             ELSE /\ generation' = generation + 1
                  /\ snapshots' \in GrabOutputs(generation')
                  /\ stacks' = Awaits(t, [f EXCEPT !.ok = @ + 1, !.reloads = @ + 1],
                                      Frame("reload_epg", "check", FALSE))
    /\ UNCHANGED <<runs, dead, store, finished, seen>>
    /\ UNCHANGED not_task

\* line 517: asyncio.sleep(15) is over
update_epg_sleep(t) ==
    /\ Running(t, "update_epg", "sleep")
    /\ stacks' = Goes(t, At(Top(t), "loop"))
    /\ UNCHANGED <<locks, runs, dead, snapshots, store, generation, finished, seen>>
    /\ UNCHANGED not_task

\* line 520: reload_epg has returned; break
update_epg_break(t) ==
    /\ Running(t, "update_epg", "break")
    /\ stacks' = Returns(t)
    /\ finished' = Outcome(t, Top(t), FALSE)
    /\ UNCHANGED <<locks, runs, dead, snapshots, store, generation, seen>>
    /\ UNCHANGED not_task

\* lines 282-287: a missing file awaits update_epg first; otherwise the
\* coroutine takes epg_lock if it is free and opens epg.json
reload_epg_check(t) ==
    /\ Running(t, "reload_epg", "check")
    /\ IF \/ snapshots.epg_data = Missing
          \/ snapshots.epg_metadata = Missing
          \/ ~snapshots.guide
       THEN /\ stacks' = Awaits(t, At(Top(t), "lock"), Frame("update_epg", "loop", FALSE))
            /\ UNCHANGED locks
       ELSE IF Free("epg_lock")
            THEN /\ locks' = Acquired(t, "epg_lock")
                 /\ stacks' = Goes(t, At(Top(t), "read_data"))
            ELSE /\ stacks' = Goes(t, At(Top(t), "lock"))
                 /\ UNCHANGED locks
    /\ UNCHANGED <<runs, dead, snapshots, store, generation, finished, seen>>
    /\ UNCHANGED not_task

\* line 287: async with epg_lock, once the lock is free
reload_epg_lock(t) ==
    /\ Running(t, "reload_epg", "lock")
    /\ Free("epg_lock")
    /\ locks' = Acquired(t, "epg_lock")
    /\ stacks' = Goes(t, At(Top(t), "read_data"))
    /\ UNCHANGED <<runs, dead, snapshots, store, generation, finished, seen>>
    /\ UNCHANGED not_task

\* lines 288-296: epg.json is read; _epgdata is replaced by what the file
\* holds, which has no cloud entries merged. A file that does not parse is
\* deleted and reload_epg awaited again, inside the async with; one without
\* 'data' raises KeyError
reload_epg_data(t) ==
    /\ Running(t, "reload_epg", "read_data")
    /\ IF snapshots.epg_data > 0
       THEN /\ store' = [store EXCEPT !.epgdata = snapshots.epg_data, !.merged = FALSE]
            /\ stacks' = Goes(t, At(Top(t), "read_meta"))
            /\ UNCHANGED snapshots
       ELSE IF snapshots.epg_data = Headless
            THEN /\ stacks' = Goes(t, At(Top(t), "raise"))
                 /\ UNCHANGED <<store, snapshots>>
            ELSE /\ snapshots' = [snapshots EXCEPT !.epg_data = Missing]
                 /\ stacks' = Awaits(t, At(Top(t), "return"),
                                     Frame("reload_epg", "check", FALSE))
                 /\ UNCHANGED store
    /\ UNCHANGED <<locks, runs, dead, generation, finished, seen>>
    /\ UNCHANGED not_task

\* lines 298-309: epg_metadata.json is read and _channels replaced, then
\* update_cloud(forced=True) is awaited, inside the async with
reload_epg_meta(t) ==
    /\ Running(t, "reload_epg", "read_meta")
    /\ IF snapshots.epg_metadata > 0
       THEN /\ store' = [store EXCEPT !.channels = snapshots.epg_metadata]
            /\ stacks' = Awaits(t, At(Top(t), "return"),
                                Frame("update_cloud", "fetch", TRUE))
            /\ UNCHANGED snapshots
       ELSE IF snapshots.epg_metadata = Headless
            THEN /\ stacks' = Goes(t, At(Top(t), "raise"))
                 /\ UNCHANGED <<store, snapshots>>
            ELSE /\ snapshots' = [snapshots EXCEPT !.epg_metadata = Missing]
                 /\ stacks' = Awaits(t, At(Top(t), "return"),
                                     Frame("reload_epg", "check", FALSE))
                 /\ UNCHANGED store
    /\ UNCHANGED <<locks, runs, dead, generation, finished, seen>>
    /\ UNCHANGED not_task

\* lines 296, 307, 311-317: what reload_epg awaited has returned; the async
\* with block is left and reload_epg returns
reload_epg_return(t) ==
    /\ Running(t, "reload_epg", "return")
    /\ locks' = Released(t)
    /\ stacks' = Returns(t)
    /\ UNCHANGED <<runs, dead, snapshots, store, generation, finished, seen>>
    /\ UNCHANGED not_task

\* what update_cloud does after the merge: lines 490-495 launch the grabber
\* when the catalog changed or cloud.m3u / cloud.xml is missing
AfterMerge(t, updated, missing) ==
    IF updated \/ missing THEN Goes(t, At(Top(t), "grab1")) ELSE Returns(t)

\* lines 422-483: the cloud catalog is fetched and compared; a forced call
\* merges at once, a scheduled one that found a change merges under epg_lock
update_cloud_fetch(t) ==
    /\ Running(t, "update_cloud", "fetch")
    /\ \E updated, missing \in BOOLEAN :
          IF Top(t).forced
          THEN /\ store' = [store EXCEPT !.merged = TRUE]
               /\ stacks' = AfterMerge(t, updated, missing)
          ELSE IF updated
               THEN IF Free("epg_lock")
                    THEN /\ store' = [store EXCEPT !.merged = TRUE]
                         /\ stacks' = AfterMerge(t, updated, missing)
                    ELSE /\ stacks' = Goes(t, At(Top(t), "merge_lock"))
                         /\ UNCHANGED store
               ELSE /\ stacks' = AfterMerge(t, updated, missing)
                    /\ UNCHANGED store
    /\ UNCHANGED <<locks, runs, dead, snapshots, generation, finished, seen>>
    /\ UNCHANGED not_task

\* lines 480-481: async with epg_lock: merge(), once the lock is free
update_cloud_merge(t) ==
    /\ Running(t, "update_cloud", "merge_lock")
    /\ Free("epg_lock")
    /\ store' = [store EXCEPT !.merged = TRUE]
    /\ stacks' = AfterMerge(t, TRUE, FALSE)
    /\ UNCHANGED <<locks, runs, dead, snapshots, generation, finished, seen>>
    /\ UNCHANGED not_task

\* lines 491-493: create_subprocess_exec has tv_cloud1 running; then
\* async with tvgrab_lock
update_cloud_grab1(t) ==
    /\ Running(t, "update_cloud", "grab1")
    /\ IF Free("tvgrab_lock")
       THEN /\ locks' = Acquired(t, "tvgrab_lock")
            /\ stacks' = Goes(t, At(Top(t), "grab2"))
       ELSE /\ stacks' = Goes(t, At(Top(t), "grab_lock"))
            /\ UNCHANGED locks
    /\ UNCHANGED <<runs, dead, snapshots, store, generation, finished, seen>>
    /\ UNCHANGED not_task

\* line 493: tvgrab_lock is free
update_cloud_grab_lock(t) ==
    /\ Running(t, "update_cloud", "grab_lock")
    /\ Free("tvgrab_lock")
    /\ locks' = Acquired(t, "tvgrab_lock")
    /\ stacks' = Goes(t, At(Top(t), "grab2"))
    /\ UNCHANGED <<runs, dead, snapshots, store, generation, finished, seen>>
    /\ UNCHANGED not_task

\* lines 494-497: create_subprocess_exec has tv_cloud2 running; the lock is
\* released and update_cloud returns
update_cloud_grab2(t) ==
    /\ Running(t, "update_cloud", "grab2")
    /\ locks' = Released(t)
    /\ stacks' = Returns(t)
    /\ UNCHANGED <<runs, dead, snapshots, store, generation, finished, seen>>
    /\ UNCHANGED not_task

\* an exception leaves the coroutine, and its async with blocks, for the
\* one awaiting it; out of the outermost one it ends the every() task (the
\* request handler answers 500 and serves the next request)
unwind(t) ==
    /\ Depth(t) > 0
    /\ Top(t).pc = "raise"
    /\ locks' = Released(t)
    /\ finished' = IF Top(t).fn = "update_epg"
                   THEN Outcome(t, Top(t), TRUE)
                   ELSE finished
    /\ IF Depth(t) = 1
       THEN /\ stacks' = Returns(t)
            /\ dead' = [dead EXCEPT ![t] = (t # "demand")]
       ELSE /\ stacks' = [stacks EXCEPT ![t] =
                             [i \in 1..(Len(@) - 1) |->
                                 IF i = Len(@) - 1 THEN At(@[i], "raise") ELSE @[i]]]
            /\ UNCHANGED dead
    /\ UNCHANGED <<runs, snapshots, store, generation, seen>>
    /\ UNCHANGED not_task

\* get_program_id, get_epg, the timer scan: they read _epgdata and
\* _channels as they are, taking no lock
Found ==
    [fresh_table |-> store.epgdata # store.channels, cloud_merged |-> store.merged]

reader ==
    /\ seen # Found
    /\ seen' = Found
    /\ UNCHANGED <<stacks, locks, runs, dead, snapshots, store, generation, finished>>
    /\ UNCHANGED not_task

\* the service is up with generation 1 loaded; the files are as the last
\* grabber run or a crash left them
TaskInit ==
    /\ stacks = [t \in Tasks |-> <<>>]
    /\ locks = [epg_lock |-> NoHolder, tvgrab_lock |-> NoHolder]
    /\ runs = 0
    /\ dead = [t \in Tasks |-> FALSE]
    /\ snapshots \in [epg_data : {1, Corrupt, Missing, Headless},
                      epg_metadata : {1, Corrupt, Missing},
                      guide : BOOLEAN]
    /\ store = [epgdata |-> 1, channels |-> 1, merged |-> TRUE]
    /\ generation = 1
    /\ finished = NoOutcome
    /\ seen = [fresh_table |-> FALSE, cloud_merged |-> TRUE]

TaskIdle ==
    /\ stacks = [t \in Tasks |-> <<>>]
    /\ locks = [epg_lock |-> NoHolder, tvgrab_lock |-> NoHolder]
    /\ runs = 0
    /\ dead = [t \in Tasks |-> FALSE]
    /\ snapshots = [epg_data |-> 1, epg_metadata |-> 1, guide |-> TRUE]
    /\ store = [epgdata |-> 1, channels |-> 1, merged |-> TRUE]
    /\ generation = 1
    /\ finished = NoOutcome
    /\ seen = [fresh_table |-> FALSE, cloud_merged |-> TRUE]

TaskNext ==
    \/ every_update_epg
    \/ handle_reload_epg
    \/ every_update_cloud
    \/ \E t \in Tasks : update_epg_loop(t)
    \/ \E t \in Tasks : update_epg_spawn(t)
    \/ \E t \in Tasks : update_epg_wait(t)
    \/ \E t \in Tasks : update_epg_sleep(t)
    \/ \E t \in Tasks : update_epg_break(t)
    \/ \E t \in Tasks : reload_epg_check(t)
    \/ \E t \in Tasks : reload_epg_lock(t)
    \/ \E t \in Tasks : reload_epg_data(t)
    \/ \E t \in Tasks : reload_epg_meta(t)
    \/ \E t \in Tasks : reload_epg_return(t)
    \/ \E t \in Tasks : update_cloud_fetch(t)
    \/ \E t \in Tasks : update_cloud_merge(t)
    \/ \E t \in Tasks : update_cloud_grab1(t)
    \/ \E t \in Tasks : update_cloud_grab_lock(t)
    \/ \E t \in Tasks : update_cloud_grab2(t)
    \/ \E t \in Tasks : unwind(t)
    \/ reader

\* ------------------------------------------------------------------------
\* movistar-u7d.py: handle_rtp, the relay port of concurrent requests
\* ------------------------------------------------------------------------
\* the requests served at once, and the ephemeral ports of the host
MaxSessions == 2
MaxPorts == 3

Sessions == 1..MaxSessions
Ports == 1..MaxPorts

NoPort == 0
NoSocket == 0

\* the requests that hold a client_port and have not ended
Live(s) == handlers[s].pc \in {"spawn", "wait", "bind", "relay"}

\* lines 129-132: a socket is bound to port 0, the system picks a port no
\* socket is bound to, getsockname() gives client_port, and closing() closes
\* the socket when the with block is left
allocate_port(s) ==
    /\ handlers[s].pc = "start"
    /\ \E p \in Ports :
          /\ udp[p] = NoSocket
          /\ handlers' = [handlers EXCEPT ![s] = [pc |-> "spawn", port |-> p]]
    /\ UNCHANGED udp
    /\ UNCHANGED not_port

\* lines 134-147: the unit is started with -p client_port, the port its
\* SETUP advertises to the upstream
spawn_unit(s) ==
    /\ handlers[s].pc = "spawn"
    /\ handlers' = [handlers EXCEPT ![s].pc = "wait"]
    /\ UNCHANGED udp
    /\ UNCHANGED not_port

\* lines 148-161: the unit has ended within 300 ms (404) or the request is
\* a record request (200): the handler returns; otherwise it goes on
wait_unit(s) ==
    /\ handlers[s].pc = "wait"
    /\ \/ handlers' = [handlers EXCEPT ![s].pc = "done"]
       \/ handlers' = [handlers EXCEPT ![s].pc = "bind"]
    /\ UNCHANGED udp
    /\ UNCHANGED not_port

\* lines 167-169: asyncio_dgram.bind((host, int(client_port))) binds the
\* port, or raises OSError when a socket is bound to it
bind_port(s) ==
    /\ handlers[s].pc = "bind"
    /\ IF udp[handlers[s].port] = NoSocket
       THEN /\ udp' = [udp EXCEPT ![handlers[s].port] = s]
            /\ handlers' = [handlers EXCEPT ![s].pc = "relay"]
       ELSE /\ handlers' = [handlers EXCEPT ![s].pc = "done"]
            /\ UNCHANGED udp
    /\ UNCHANGED not_port

\* lines 168-189: the relay loop ends and closing() closes the stream
end_relay(s) ==
    /\ handlers[s].pc = "relay"
    /\ udp' = [udp EXCEPT ![handlers[s].port] = NoSocket]
    /\ handlers' = [handlers EXCEPT ![s].pc = "done"]
    /\ UNCHANGED not_port

PortInit ==
    /\ handlers = [s \in Sessions |-> [pc |-> "start", port |-> NoPort]]
    /\ udp = [p \in Ports |-> NoSocket]

PortIdle ==
    /\ handlers = <<>>
    /\ udp = <<>>

PortNext ==
    \/ \E s \in Sessions : allocate_port(s)
    \/ \E s \in Sessions : spawn_unit(s)
    \/ \E s \in Sessions : wait_unit(s)
    \/ \E s \in Sessions : bind_port(s)
    \/ \E s \in Sessions : end_relay(s)

\* ------------------------------------------------------------------------
\* handle_program_name: concurrent confirmations of finished recordings
\* ------------------------------------------------------------------------
MaxPuts == 2
PutRequests == 1..MaxPuts
ProgramIds == 1..MaxPuts

\* asyncio.Lock.acquire() returns at once when the lock is free and nobody
\* waits for it; otherwise the caller queues behind the waiters
Immediate(lock) == ~lock.locked /\ lock.waiters = <<>>

\* asyncio.Lock.release(): the lock is free and its first waiter is woken;
\* the waiter leaves the queue when it runs
LockReleased(lock) == [lock EXCEPT !.locked = FALSE]

NoPut == [pc |-> "idle", program |-> 0, recordings |-> {}]

\* lines 186-199: get_epg() finds the event or the answer is 404; a GET is
\* answered from the table; a PUT enters `async with recordings_lock`
handle_program_name(h, method, found, p) ==
    /\ puts[h].pc = "idle"
    /\ IF ~found
       THEN /\ puts' = [puts EXCEPT ![h].pc = "not_found"]
            /\ UNCHANGED recordings_lock
       ELSE IF method = "GET"
       THEN /\ puts' = [puts EXCEPT ![h].pc = "answered"]
            /\ UNCHANGED recordings_lock
       ELSE IF Immediate(recordings_lock)
       THEN /\ puts' = [puts EXCEPT ![h].pc = "read", ![h].program = p]
            /\ recordings_lock' = [recordings_lock EXCEPT !.locked = TRUE]
       ELSE /\ puts' = [puts EXCEPT ![h].pc = "wait_read", ![h].program = p]
            /\ recordings_lock' = [recordings_lock EXCEPT !.waiters = Append(@, h)]
    /\ UNCHANGED recordings_file
    /\ UNCHANGED not_rec

\* line 199: the request woken by release() takes the lock and starts reading
read_acquired(h) ==
    /\ puts[h].pc = "wait_read"
    /\ ~recordings_lock.locked
    /\ recordings_lock.waiters # <<>>
    /\ Head(recordings_lock.waiters) = h
    /\ puts' = [puts EXCEPT ![h].pc = "read"]
    /\ recordings_lock' = [locked |-> TRUE, waiters |-> Tail(recordings_lock.waiters)]
    /\ UNCHANGED recordings_file
    /\ UNCHANGED not_rec

\* lines 200-214: f.read() returns and the lock is released; the program is
\* put into the request's own _recordings; the second `async with
\* recordings_lock` writes the file at once when nobody waits for the lock
read_records(h) ==
    /\ puts[h].pc = "read"
    /\ LET mine == recordings_file \cup {puts[h].program}
           freed == LockReleased(recordings_lock)
       IN IF Immediate(freed)
          THEN /\ recordings_file' = mine
               /\ recordings_lock' = freed
               /\ puts' = [puts EXCEPT ![h].pc = "done", ![h].recordings = mine]
          ELSE /\ recordings_lock' = [freed EXCEPT !.waiters = Append(@, h)]
               /\ puts' = [puts EXCEPT ![h].pc = "wait_write", ![h].recordings = mine]
               /\ UNCHANGED recordings_file
    /\ UNCHANGED not_rec

\* lines 212-214: the request woken by release() takes the lock, dumps its
\* _recordings over the file and releases the lock
write_records(h) ==
    /\ puts[h].pc = "wait_write"
    /\ ~recordings_lock.locked
    /\ recordings_lock.waiters # <<>>
    /\ Head(recordings_lock.waiters) = h
    /\ recordings_file' = puts[h].recordings
    /\ recordings_lock' = [locked |-> FALSE, waiters |-> Tail(recordings_lock.waiters)]
    /\ puts' = [puts EXCEPT ![h].pc = "done"]
    /\ UNCHANGED not_rec

RecInit ==
    /\ puts = [h \in PutRequests |-> NoPut]
    /\ recordings_file \in SUBSET ProgramIds
    /\ recordings_lock = [locked |-> FALSE, waiters |-> <<>>]

RecIdle ==
    /\ puts = <<>>
    /\ recordings_file = {}
    /\ recordings_lock = [locked |-> FALSE, waiters |-> <<>>]

RecNext ==
    \/ \E h \in PutRequests, method \in {"GET", "PUT"}, found \in BOOLEAN,
          p \in ProgramIds : handle_program_name(h, method, found, p)
    \/ \E h \in PutRequests : read_acquired(h)
    \/ \E h \in PutRequests : read_records(h)
    \/ \E h \in PutRequests : write_records(h)

\* ------------------------------------------------------------------------
\* timers_check next to the scheduled update_cloud: the scan of one channel
\* (one rule per channel) and the merge work on the same table of _epgdata
\* ------------------------------------------------------------------------
ScanLimits == {IntOf(t) : t \in Timestamps}

\* reversed(): the entries of a table, last inserted first
RECURSIVE Reversed(_)
Reversed(tbl) ==
    IF tbl = <<>> THEN <<>>
    ELSE <<tbl[Len(tbl)]>> \o Reversed(SubSeq(tbl, 1, Len(tbl) - 1))

NoIter == [pc |-> "idle", ch |-> "", began |-> <<>>, rest |-> <<>>, limit |-> 0]
ScanEnded == {"idle", "done", "RuntimeError", "KeyError"}

\* lines 370-371
TooNew(e, limit) == IntOf(e.start) > limit

\* the loop went by the entries before the k-th: each was too new, or had a
\* title that no rule asked for
Passed(it, k) ==
    \A i \in 1..(k - 1) : TooNew(it.rest[i], it.limit) \/ ~it.rest[i].raw

\* lines 369-393, from a call of next() to the next await or to the end:
\* next() raises RuntimeError when the size of the table is not the one it
\* had at reversed(); ['full_title'] raises KeyError on a cloud entry
Proceed(it, tbl) ==
    IF Len(tbl) # Len(it.began)
    THEN {[it EXCEPT !.pc = "RuntimeError"]}
    ELSE {[it EXCEPT !.pc = IF it.rest[k].raw THEN "KeyError" ELSE "get",
                     !.rest = SubSeq(it.rest, k + 1, Len(it.rest))] :
            k \in {j \in DOMAIN it.rest :
                    Passed(it, j) /\ ~TooNew(it.rest[j], it.limit)}}
         \cup (IF Passed(it, Len(it.rest) + 1)
               THEN {[it EXCEPT !.pc = "done", !.rest = <<>>]}
               ELSE {})

\* lines 330-356: timers_lock is taken and the files and the ffmpeg
\* processes are read
timers_check_start ==
    /\ iter.pc \in ScanEnded
    /\ iter' = [NoIter EXCEPT !.pc = "procs"]
    /\ UNCHANGED <<scan_epgdata, scan_cloud>>
    /\ UNCHANGED not_scan

\* lines 357-393: the cap is checked, then the channel of the rule is
\* scanned from reversed(_epgdata[channel_id]) on
scan_channel(ch, limit, capped) ==
    /\ iter.pc = "procs"
    /\ IF capped
       THEN iter' = [iter EXCEPT !.pc = "done"]
       ELSE \E n \in Proceed([pc |-> "next", ch |-> ch, began |-> scan_epgdata[ch],
                              rest |-> Reversed(scan_epgdata[ch]), limit |-> limit],
                             scan_epgdata[ch]) : iter' = n
    /\ UNCHANGED <<scan_epgdata, scan_cloud>>
    /\ UNCHANGED not_scan

\* lines 393-405: the orchestrator answers; 200 leads to the 3 s pause or,
\* at the cap, to return; 503 to return; anything else to the next event
scan_answer(status, capped) ==
    /\ iter.pc = "get"
    /\ IF status = 200
       THEN iter' = [iter EXCEPT !.pc = IF capped THEN "done" ELSE "sleep"]
       ELSE IF status = 503
       THEN iter' = [iter EXCEPT !.pc = "done"]
       ELSE \E n \in Proceed(iter, scan_epgdata[iter.ch]) : iter' = n
    /\ UNCHANGED <<scan_epgdata, scan_cloud>>
    /\ UNCHANGED not_scan

\* line 402: the pause is over
scan_wake ==
    /\ iter.pc = "sleep"
    /\ \E n \in Proceed(iter, scan_epgdata[iter.ch]) : iter' = n
    /\ UNCHANGED <<scan_epgdata, scan_cloud>>
    /\ UNCHANGED not_scan

\* lines 419-483: every(300, update_cloud) finds a changed catalog and
\* merges it under epg_lock, which the scan does not take; the iterator of
\* the scan walks the entries of the table itself: one that was deleted is
\* gone for it, one that was added lies behind it
cloud_merge(catalog) ==
    LET new == NewCloud(catalog)
    IN /\ catalog # NoCatalog
       /\ CloudUpdated(scan_cloud, new)
       /\ \E m \in Merge(scan_epgdata, scan_cloud, new, FALSE) :
            /\ scan_epgdata' = m.epgdata
            /\ scan_cloud' = IF m.raised THEN scan_cloud ELSE new
            /\ iter' = IF iter.ch \in DOMAIN m.epgdata
                       THEN [iter EXCEPT !.rest =
                                SelectSeq(@, LAMBDA e : e.start \in Keys(m.epgdata[iter.ch]))]
                       ELSE iter
       /\ UNCHANGED not_scan

ScanInit ==
    /\ scan_epgdata \in GuideSnapshots
    /\ scan_cloud = EmptyMap
    /\ iter = NoIter

ScanIdle ==
    /\ scan_epgdata = EmptyMap
    /\ scan_cloud = EmptyMap
    /\ iter = NoIter

ScanNext ==
    \/ timers_check_start
    \/ \E ch \in GuideChannels, limit \in ScanLimits, capped \in BOOLEAN :
          scan_channel(ch, limit, capped)
    \/ \E status \in {200, 503, 500}, capped \in BOOLEAN : scan_answer(status, capped)
    \/ scan_wake
    \/ \E catalog \in Catalogs : cloud_merge(catalog)

\* ------------------------------------------------------------------------
\* Specifications: each program runs on its own
\* ------------------------------------------------------------------------
EpgIdle ==
    /\ epg_file = [ch \in GuideChannels |-> <<>>]
    /\ epgdata = EmptyMap
    /\ channels = EmptyMap
    /\ cloud = EmptyMap
    /\ cloud_file = [exists |-> FALSE, data |-> EmptyMap]
    /\ cloud_guide = FALSE
    /\ epg_last = NoLast

RtpIdle ==
    /\ hpc = "off"
    /\ request = [url |-> "other", query |-> NoQuery]
    /\ cmd = NoCmd
    /\ u7d = "none"
    /\ sigints = 0
    /\ absorbed = 0
    /\ survived = FALSE
    /\ resp_open = FALSE
    /\ bound = FALSE
    /\ received = <<>>
    /\ chunks = <<>>
    /\ answer = NoAnswer

InitEpg == EpgInit /\ RtspIdle /\ RtpIdle /\ TmrIdle /\ TaskIdle /\ PortIdle /\ RecIdle
    /\ ScanIdle
SpecEpg == InitEpg /\ [][EpgNext]_vars

InitRtsp == RtspInit /\ EpgIdle /\ RtpIdle /\ TmrIdle /\ TaskIdle /\ PortIdle /\ RecIdle
    /\ ScanIdle
SpecRtsp == InitRtsp /\ [][RtspNext]_vars

InitRtp == RtpStart(Requests) /\ EpgIdle /\ RtspIdle /\ TmrIdle /\ TaskIdle /\ PortIdle /\ RecIdle
    /\ ScanIdle
SpecRtp == InitRtp /\ [][RtpNext]_vars

InitTmr == TmrInit /\ EpgIdle /\ RtspIdle /\ RtpIdle /\ TaskIdle /\ PortIdle /\ RecIdle
    /\ ScanIdle
SpecTmr == InitTmr /\ [][TmrNext]_vars

InitPipe == EpgInit /\ RtpStart(PipeRequests) /\ RtspIdle /\ TmrIdle /\ TaskIdle /\ PortIdle /\ RecIdle
    /\ ScanIdle
SpecPipe == InitPipe /\ [][PipeNext]_vars

InitTask == TaskInit /\ EpgIdle /\ RtspIdle /\ RtpIdle /\ TmrIdle /\ PortIdle /\ RecIdle
    /\ ScanIdle
SpecTask == InitTask /\ [][TaskNext]_vars

InitPort == PortInit /\ EpgIdle /\ RtspIdle /\ RtpIdle /\ TmrIdle /\ TaskIdle /\ RecIdle
    /\ ScanIdle
SpecPort == InitPort /\ [][PortNext]_vars

InitRec == RecInit /\ EpgIdle /\ RtspIdle /\ RtpIdle /\ TmrIdle /\ TaskIdle /\ PortIdle
    /\ ScanIdle
SpecRec == InitRec /\ [][RecNext]_vars

InitScan == ScanInit /\ EpgIdle /\ RtspIdle /\ RtpIdle /\ TmrIdle /\ TaskIdle /\ PortIdle
    /\ RecIdle
SpecScan == InitScan /\ [][ScanNext]_vars

\* ------------------------------------------------------------------------
\* Claims about the resolver (checked under SpecEpg)
\* ------------------------------------------------------------------------
Resolved == epg_last.op = "program_id"
ReqChannel == epg_last.channel_id
ReqStart == epg_last.url.start
ReqKnown == ReqChannel \in DOMAIN channels /\ ReqChannel \in DOMAIN epgdata
ReqTable == epgdata[ReqChannel]
\* the events of the requested channel that start at or before the request
Preceding == {k \in Keys(ReqTable) : IntOf(k) <= IntOf(ReqStart)}
LatestPreceding == CHOOSE k \in Preceding : \A j \in Preceding : IntOf(j) <= IntOf(k)
\* the event a successful answer names
Matched == Entry(ReqTable, CHOOSE k \in Keys(ReqTable) :
                              Entry(ReqTable, k).pid = epg_last.body.program_id)

\* C1: a timestamp T of a known channel that is no event start resolves to
\* the event with the greatest start <= T whenever such an event exists,
\* whatever the order of the table.
C1_ResolvesLatestEvent ==
    (Resolved /\ ReqKnown /\ ReqStart # NoMatch
       /\ ReqStart \notin Keys(ReqTable) /\ Preceding # {})
    => /\ epg_last.body.kind = "ok"
       /\ epg_last.body.program_id = Entry(ReqTable, LatestPreceding).pid
       /\ ~Entry(ReqTable, LatestPreceding).raw

\* C2: a resolve request is answered 404 when the channel is unknown, has no
\* events, or has no event starting at or before the requested timestamp; a
\* 200 answer never carries a null result.
C2_NotFoundCases ==
    Resolved =>
      /\ (ReqStart # NoMatch /\ (~ReqKnown \/ Len(ReqTable) = 0 \/ Preceding = {}))
            => epg_last.status = 404
      /\ epg_last.status = 200 => epg_last.body.kind = "ok"

\* C3 as stated: offset is requested - matched start on a backward match and
\* 0 on an exact one; duration is the requested duration when one was given,
\* otherwise matched end - matched start.
C3_OffsetDurationAsStated ==
    (Resolved /\ epg_last.body.kind = "ok") =>
      /\ epg_last.body.offset =
            IF ReqStart \in Keys(ReqTable) THEN 0
            ELSE IntOf(ReqStart) - IntOf(Matched.start)
      /\ epg_last.body.duration =
            IF epg_last.url.dur # NoDur THEN IntOf(epg_last.url.dur)
            ELSE Matched.end - IntOf(Matched.start)

\* C3 amended: the requested duration is used when one was given and is not
\* zero; a requested duration of zero counts as none.
C3_OffsetDuration ==
    (Resolved /\ epg_last.body.kind = "ok") =>
      /\ epg_last.body.offset =
            IF ReqStart \in Keys(ReqTable) THEN 0
            ELSE IntOf(ReqStart) - IntOf(Matched.start)
      /\ epg_last.body.duration =
            IF epg_last.url.dur # NoDur /\ IntOf(epg_last.url.dur) # 0
            THEN IntOf(epg_last.url.dur)
            ELSE Matched.end - IntOf(Matched.start)

\* a backward match answered with a positive offset and the event's own length
C3_Witness ==
    /\ Resolved /\ epg_last.body.kind = "ok"
    /\ ReqStart \notin Keys(ReqTable)
    /\ epg_last.body.offset > 0
    /\ epg_last.url.dur = NoDur
    /\ epg_last.body.duration = Matched.end - IntOf(Matched.start)
    /\ Len(ReqTable) > 1

\* ------------------------------------------------------------------------
\* Claims about the negotiator (checked under SpecRtsp)
\* ------------------------------------------------------------------------
Calls(m) == {i \in DOMAIN reqs : reqs[i].method = m}
\* self.ip as the answer to DESCRIBE left it
PeerFromDescribe ==
    IF Calls("DESCRIBE") = {} THEN NoIp
    ELSE reqs[CHOOSE i \in Calls("DESCRIBE") : TRUE].ip
\* the identifier of a Session header: what stands before the first ";"
IdentifierOf(h) ==
    LET semis == {i \in DOMAIN h : h[i] = ";"}
    IN IF semis = {} THEN h ELSE SubSeq(h, 1, Min(semis) - 1)

\* C4: a non-success response to SETUP is followed by exactly one SETUP2,
\* sent as a SETUP to the peer address captured from DESCRIBE, url and peer
\* address exchanged; never more than one SETUP2, and none after a
\* successful SETUP.
C4_SetupFallback ==
    /\ Cardinality(Calls("SETUP2")) <= 1
    /\ \A i \in Calls("SETUP") :
        /\ reqs[i].url = UpstreamUrl
        /\ reqs[i].status = "other" =>
              IF i < Len(reqs)
              THEN /\ reqs[i + 1].method = "SETUP2"
                   /\ reqs[i + 1].wire = "SETUP"
                   /\ reqs[i + 1].url = PeerFromDescribe
                   /\ client.url = PeerFromDescribe
                   /\ client.ip = UpstreamUrl
              ELSE npc = "SETUP2"
        /\ reqs[i].status = "200 OK" => Calls("SETUP2") = {}
    /\ \A j \in Calls("SETUP2") :
          j > 1 /\ reqs[j - 1].method = "SETUP" /\ reqs[j - 1].status = "other"

\* SETUP was refused, and the run ended after one SETUP2 to the peer address
C4_Witness ==
    /\ npc = "done"
    /\ \E i \in Calls("SETUP") : reqs[i].status = "other"
    /\ \E j \in Calls("SETUP2") :
          reqs[j].url = PeerAddress /\ reqs[j].status = "200 OK"

\* C5: PLAY is sent only after a SETUP or SETUP2 answered with success, and
\* PLAY, every GET_PARAMETER and TEARDOWN carry the session identifier of
\* that answer; when SETUP and SETUP2 both fail no PLAY is sent.
C5_PlaySession ==
    /\ \A i \in Calls("PLAY") :
        /\ i > 1
        /\ reqs[i - 1].wire = "SETUP"
        /\ reqs[i - 1].status = "200 OK"
        /\ reqs[i].session = IdentifierOf(reqs[i - 1].resp_session)
        /\ reqs[i].session # NoHeader
    /\ \A i \in Calls("GET_PARAMETER") \cup Calls("TEARDOWN") :
          \E j \in Calls("PLAY") : j < i /\ reqs[i].session = reqs[j].session
    /\ (\E j \in Calls("SETUP2") : reqs[j].status # "200 OK") => Calls("PLAY") = {}

\* SETUP refused, SETUP2 accepted with "b;t": PLAY, a keep-alive and
\* TEARDOWN all went out with session "b"
C5_Witness ==
    /\ npc = "done"
    /\ \E i \in Calls("SETUP") :
          reqs[i].status = "other" /\ reqs[i].resp_session = <<"a">>
    /\ \E j \in Calls("SETUP2") : reqs[j].resp_session = <<"b", ";", "t">>
    /\ \E k \in Calls("PLAY") : reqs[k].session = <<"b">>
    /\ \E k \in Calls("GET_PARAMETER") : reqs[k].session = <<"b">>
    /\ \E k \in Calls("TEARDOWN") : reqs[k].session = <<"b">>

\* C7: whenever the negotiator ends after the upstream connection was
\* established, exactly one TEARDOWN has been sent, as the last request of
\* the run (whatever that TEARDOWN is answered).
C7_TeardownOnEveryTermination ==
    (npc = "done" /\ client # NoClient) =>
      /\ Cardinality(Calls("TEARDOWN")) = 1
      /\ reqs[Len(reqs)].method = "TEARDOWN"

\* ------------------------------------------------------------------------
\* Claims about handle_rtp (checked under SpecRtp)
\* ------------------------------------------------------------------------
\* C6: a live request whose unit survived the 300 ms check sends the unit
\* the interrupt signal on every way the handler finishes, and a unit that
\* is already gone raises nothing.
C6_InterruptOnEveryExit ==
    (hpc = "done" /\ survived /\ ~IsRecord) =>
      /\ sigints = 1
      /\ u7d \in {"interrupted", "exited"}
      /\ u7d = "exited" => absorbed = 1

\* C8: the zero-length datagram is answered by one final empty chunk, no
\* datagram is forwarded after it, and then the unit is interrupted; every
\* datagram before it went out as one chunk, in the order of arrival.
C8_ZeroLengthEndsStream ==
    /\ Len(chunks) <= Len(received)
    /\ \A i \in DOMAIN chunks :
          chunks[i] = [data |-> received[i], end_stream |-> (received[i] = "")]
    /\ \A i \in DOMAIN received : received[i] = "" => i = Len(received)
    /\ (received # <<>> /\ received[Len(received)] = "" /\ hpc \in {"finally", "done"})
          => Len(chunks) = Len(received)
    /\ (received # <<>> /\ received[Len(received)] = "" /\ hpc = "done")
          => sigints = 1

\* two datagrams were forwarded, the zero-length one closed the stream and
\* the unit was interrupted
C8_Witness ==
    /\ hpc = "done"
    /\ received = <<"d1", "d2", "">>
    /\ Len(chunks) = 3
    /\ chunks[3] = [data |-> "", end_stream |-> TRUE]
    /\ answer.kind = "resp"
    /\ u7d = "interrupted"

\* C9: a unit that exits before the 300 ms run out makes the handler answer
\* 404 with neither a client response opened nor the relay socket bound,
\* for live and record requests; a unit still running then never does.
C9_UnavailableOnEarlyExit ==
    /\ (hpc = "done" /\ u7d # "none" /\ ~survived) =>
          /\ answer = Answer(404, "NOT AVAILABLE")
          /\ ~resp_open /\ ~bound /\ chunks = <<>>
    /\ survived => answer.kind # "NOT AVAILABLE"
    /\ answer.kind = "NOT AVAILABLE" => u7d = "exited"

C9_Witness ==
    /\ hpc = "done"
    /\ IsRecord
    /\ u7d = "exited"
    /\ answer = Answer(404, "NOT AVAILABLE")

\* C10: a record request with a numeric value N whose unit survived the
\* 300 ms check is answered {OK, channel_id, program_id, offset, time N};
\* no streaming body is opened, the relay socket is not bound and the unit
\* gets no signal.
C10_RecordAcknowledged ==
    (hpc = "done" /\ IsRecord /\ survived) =>
      /\ answer = [status |-> 200, kind |-> "OK", body |-> cmd]
      /\ cmd.program_id # ""
      /\ IsNumeric(request.query.value) => answer.body.time = request.query.value
      /\ ~resp_open /\ ~bound /\ chunks = <<>>
      /\ sigints = 0
      /\ u7d # "interrupted"

C10_Witness ==
    /\ hpc = "done"
    /\ request.query = [name |-> "record", value |-> "120"]
    /\ survived
    /\ answer.body.time = "120"
    /\ u7d = "running"

\* ------------------------------------------------------------------------
\* Claims about the timer scan (checked under SpecTmr)
\* ------------------------------------------------------------------------
AcceptedFor(ch, title) ==
    {i \in DOMAIN t_log : /\ t_log[i].channel_id = ch
                          /\ t_log[i].title = title
                          /\ t_log[i].status = 200}
Accepted == {i \in DOMAIN t_log : t_log[i].status = 200}
RunningAtStart == t_world.ffmpeg.n

\* C11: within one scan cycle at most one recording request per channel and
\* title is answered 200, however many events carry the title and however
\* many rules match it.
C11_OneRecordingPerTitle ==
    \A ch \in GuideChannels, title \in Titles :
        Cardinality(AcceptedFor(ch, title)) <= 1

\* a finished scan of a channel with two old events of one title and two
\* rules matching it, of which exactly one was accepted
C11_Witness ==
    /\ tpc = "done"
    /\ ScanOver(t_world, t_pos)
    /\ Len(t_world.match["c1"]) = 2
    /\ Cardinality({i \in DOMAIN t_world.table["c1"] :
                      /\ t_world.table["c1"][i].full_title = "A"
                      /\ t_world.table["c1"][i].timestamp <= t_world.limit}) = 2
    /\ Cardinality(AcceptedFor("c1", "A")) = 1
    /\ t_files = {}

\* C12: with a cap, the recordings running at the start of the cycle plus
\* those the cycle started never exceed it; a cycle that starts at or over
\* the cap issues no request, and the cycle ends with the request that
\* reaches the cap.
C12_CapRespected ==
    recording_threads # 0 =>
      /\ t_log # <<>> => RunningAtStart + Cardinality(Accepted) <= recording_threads
      /\ RunningAtStart >= recording_threads => t_log = <<>>
      /\ tpc \in {"scan", "done"} => nr_procs = RunningAtStart + Cardinality(Accepted)
      /\ (Accepted # {} /\ RunningAtStart + Cardinality(Accepted) >= recording_threads)
            => tpc = "done" /\ t_log[Len(t_log)].status = 200

\* the request that reached the cap ended a cycle that had more to visit
C12_Witness ==
    /\ tpc = "done"
    /\ recording_threads # 0
    /\ Accepted # {}
    /\ RunningAtStart + Cardinality(Accepted) = recording_threads
    /\ ~ScanOver(t_world, t_pos)
    /\ ~ScanOver(t_world, Advance(t_world, t_pos))

\* ------------------------------------------------------------------------
\* Claims about the cloud merge and the reload (checked under SpecEpg)
\* ------------------------------------------------------------------------
\* two tables hold the same events (a dict compares without its order)
SameEvents(t1, t2) == {t1[i] : i \in DOMAIN t1} = {t2[i] : i \in DOMAIN t2}
SameTables(e1, e2) ==
    /\ DOMAIN e1 = DOMAIN e2
    /\ \A ch \in DOMAIN e1 : SameEvents(e1[ch], e2[ch])
\* the fetched catalog has the channels and the begin timestamps of _cloud
NoDifference(catalog) == NewCloud(catalog) = cloud

C14_ReloadIdempotent ==
    [][(/\ epg_last.op = "reload_epg"
        /\ epg_last'.op = "reload_epg"
        /\ epg_last'.catalog = epg_last.catalog
        /\ reload_epg(epg_last.catalog))
       => SameTables(epgdata', epgdata)]_vars

\* the second of two reloads with one catalog, which again merged a
\* recording the guide does not hold
C14_Witness ==
    /\ epg_last.op = "reload_epg"
    /\ epg_last.again
    /\ epg_last.catalog # NoCatalog
    /\ \E ch \in DOMAIN epgdata : \E i \in DOMAIN epgdata[ch] : epgdata[ch][i].raw

\* ------------------------------------------------------------------------
\* Claims about the steps of the handshake (checked under SpecRtsp)
\* ------------------------------------------------------------------------
HandshakeSteps == {"DESCRIBE", "SETUP", "SETUP2", "PLAY", "GET_PARAMETER"}

\* C18: after a non-success response to OPTIONS, DESCRIBE or PLAY the
\* negotiator sends no later step of the handshake and no keep-alive, and
\* no step but SETUP (as SETUP2) is sent twice in a run.
C18_HardFailure ==
    /\ \A i \in DOMAIN reqs :
          (reqs[i].method \in {"OPTIONS", "DESCRIBE", "PLAY"} /\ reqs[i].status = "other")
          => \A j \in DOMAIN reqs : j > i => reqs[j].method \notin HandshakeSteps
    /\ \A m \in {"OPTIONS", "DESCRIBE", "SETUP", "SETUP2", "PLAY"} :
          Cardinality(Calls(m)) <= 1

\* ------------------------------------------------------------------------
\* Claims about the orchestrator and the EPG service together (checked
\* under SpecPipe)
\* ------------------------------------------------------------------------
\* the EPG service resolves the request's channel and url to a program
Resolvable == get_program_id(request.channel_id, request.flussonic).kind = "ok"

\* C17: a video- request the EPG service can resolve launches a negotiator
\* unit for that channel, program and offset; it is answered not found only
\* when the EPG service cannot resolve it.
C17_ResolvedLaunchesUnit ==
    [][(hpc = "resolve" /\ hpc' # "resolve") =>
         /\ Resolvable =>
               /\ hpc' = "spawn"
               /\ cmd'.program_id =
                     get_program_id(request.channel_id, request.flussonic).program_id
               /\ cmd'.offset =
                     get_program_id(request.channel_id, request.flussonic).offset
         /\ (hpc' = "done" /\ answer'.status = 404) => ~Resolvable]_vars
\* ------------------------------------------------------------------------
\* Claims about the tasks of the EPG service (checked under SpecTask)
\* ------------------------------------------------------------------------
\* the update_epg calls under way
UpdateEpgFrames ==
    {f \in UNION {{stacks[t][d] : d \in DOMAIN stacks[t]} : t \in Tasks} :
        f.fn = "update_epg"}

\* C15: update_epg runs the grabber at most 5 times; it awaits reload_epg
\* exactly when a run exits 0 and then makes no further run; when all 5
\* runs fail it returns without a reload and without an exception, and an
\* exception ends the hourly task only out of a cycle whose run succeeded,
\* so that a later cycle can start.
C15_RefreshCycle ==
    /\ [](/\ \A f \in UpdateEpgFrames :
                /\ f.i <= Attempts
                /\ f.ok <= 1
                /\ f.reloads = f.ok
                /\ f.ok = 1 => f.pc \in {"break", "raise"}
          /\ finished.attempts <= Attempts
          /\ finished.reloads = finished.ok
          /\ (finished # NoOutcome /\ finished.ok = 0)
                => (finished.attempts = Attempts /\ ~finished.raised))
    /\ [][(dead'["hourly"] /\ ~dead["hourly"]) => Top("hourly").ok = 1]_vars

\* a cycle of the hourly task gave up after 5 failed runs and the next
\* cycle's run succeeded
C15_Witness ==
    /\ finished = [task |-> "hourly", attempts |-> Attempts, ok |-> 0,
                   reloads |-> 0, raised |-> FALSE]
    /\ Depth("hourly") > 0
    /\ stacks["hourly"][1].fn = "update_epg"
    /\ stacks["hourly"][1].ok = 1
    /\ stacks["hourly"][1].i < Attempts

\* C16: a reader scheduled while reload_epg is suspended finds the store
\* whole: never the new Event table with the old channel metadata, never
\* the Event table without the cloud entries merged.
C16_ReaderSeesWholeStore == ~seen.fresh_table /\ seen.cloud_merged

\* C19: a reload_epg awaited by a reload_epg that found a damaged snapshot
\* never waits for epg_lock while the coroutine awaiting it holds the lock
\* (the holder resumes only when the waiter returns, so the wait never ends).
C19_NestedReloadNotBlocked ==
    \A t \in Tasks :
       Running(t, "reload_epg", "lock")
          => ~(~Free("epg_lock") /\ locks["epg_lock"][1] = t)

\* a coroutine is starting a grabber process or waiting for it to exit
Launching(t) ==
    /\ Depth(t) > 0
    /\ \/ Top(t).fn = "update_epg" /\ Top(t).pc \in {"spawn", "wait"}
       \/ Top(t).fn = "update_cloud" /\ Top(t).pc \in {"grab1", "grab2"}

\* C20: whenever a grabber process is being started or waited for, every
\* lock is free.
C20_NoLockWhileSpawning ==
    \A t \in Tasks : Launching(t) => \A l \in DOMAIN locks : Free(l)

\* ------------------------------------------------------------------------
\* Claims about what a cloud merge removes and keeps (checked under SpecEpg)
\* ------------------------------------------------------------------------
\* the merged cloud set update_cloud compares the catalog with
MergedCloud == IF cloud_file.exists THEN cloud_file.data ELSE cloud

\* the begin timestamps of channel ch in old that new no longer has
Dropped(old, new, ch) == old[ch] \ (IF ch \in DOMAIN new THEN new[ch] ELSE {})

\* C21: after a scheduled (non-forced) update_cloud whose catalog lacks
\* entries of the merged cloud set, the call has ended normally and none of
\* these entries is in the Event table; also when a channel lost all its
\* recordings or the catalog is empty.
C21_DroppedEntriesRemoved ==
    [][LET new == NewCloud(epg_last'.catalog)
           old == MergedCloud
       IN (/\ epg_last'.op = "update_cloud"
           /\ \E ch \in DOMAIN old : Dropped(old, new, ch) # {}
           /\ update_cloud(epg_last'.catalog))
          => /\ ~epg_last'.raised
             /\ \A ch \in DOMAIN old : \A s \in Dropped(old, new, ch) :
                   s \notin Keys(epgdata'[ch])]_vars

\* C22: update_cloud(forced=True), which reload_epg runs on the tables it
\* has just loaded from the snapshot, removes and changes nothing: every
\* table still begins with the snapshot's events, and what follows are
\* catalog entries whose start the snapshot's table did not have.
C22_ForcedMergeOnlyAdds ==
    epg_last.op = "reload_epg" =>
       \A ch \in DOMAIN epg_file :
          /\ ch \in DOMAIN epgdata
          /\ Len(epg_file[ch]) <= Len(epgdata[ch])
          /\ SubSeq(epgdata[ch], 1, Len(epg_file[ch])) = epg_file[ch]
          /\ \A i \in (Len(epg_file[ch]) + 1)..Len(epgdata[ch]) :
                /\ epgdata[ch][i] = RawEntry(epgdata[ch][i].start)
                /\ <<ch, epgdata[ch][i].start>> \in epg_last.catalog
                /\ epgdata[ch][i].start \notin Keys(epg_file[ch])

\* a reload whose forced merge had entries of the earlier cloud set to drop,
\* one of them an event of the snapshot, and a recording to add
C22_Witness ==
    /\ epg_last.op = "reload_epg"
    /\ \E ch \in DOMAIN epgdata :
          /\ \E i \in DOMAIN epgdata[ch] : epgdata[ch][i].raw
          /\ \E i \in DOMAIN epgdata[ch] :
                /\ ~epgdata[ch][i].raw
                /\ <<ch, epgdata[ch][i].start>> \notin epg_last.catalog
    /\ epg_last.updated

\* C29: a scheduled update_cloud removes only entries a merge added: every
\* event of the guide snapshot in the Event table is still there after it.
C29_GuideEventsStay ==
    [][(/\ epg_last'.op = "update_cloud"
        /\ update_cloud(epg_last'.catalog))
       => \A ch \in DOMAIN epgdata : \A i \in DOMAIN epgdata[ch] :
             ~epgdata[ch][i].raw
                => \E j \in DOMAIN epgdata'[ch] : epgdata'[ch][j] = epgdata[ch][i]]_vars

\* ------------------------------------------------------------------------
\* Claims about faults of the relay (checked under SpecRtp)
\* ------------------------------------------------------------------------
\* C23: a fault of the relay loop after at least one chunk has been sent to
\* the client never makes the handler answer 500.
C23_NoServerErrorAfterChunk ==
    [][(/\ hpc \in {"recv", "send"}
        /\ chunks # <<>>
        /\ hpc' = "finally")
       => answer'.status # 500]_vars

\* ------------------------------------------------------------------------
\* Claims about the relay ports (checked under SpecPort)
\* ------------------------------------------------------------------------
\* C24: no two requests that hold a client_port and have not ended hold the
\* same one, and from its allocation to the start of the relay and through
\* the relay the port is bound by a socket of its request.
C24_PortOwnedBySession ==
    /\ \A a, b \in Sessions :
          (a # b /\ Live(a) /\ Live(b)) => handlers[a].port # handlers[b].port
    /\ \A s \in Sessions : Live(s) => udp[handlers[s].port] = s

\* ------------------------------------------------------------------------
\* Claims about the body of the requests (checked under SpecRtsp)
\* ------------------------------------------------------------------------
\* the requests sent before the i-th one
Earlier(i, method) == \E j \in 1..(i - 1) : reqs[j].method = method

\* C25: a GET_PARAMETER carries the body 'position' exactly when SETUP2 was
\* sent before it, which happens only after a SETUP answered otherwise than
\* 200 OK; no other request carries a body; every GET_PARAMETER comes after
\* PLAY.
C25_PositionBody ==
    \A i \in DOMAIN reqs :
       /\ reqs[i].body = "position"
             <=> (reqs[i].method = "GET_PARAMETER" /\ Earlier(i, "SETUP2"))
       /\ reqs[i].body \in {"", "position"}
       /\ reqs[i].method = "GET_PARAMETER" => Earlier(i, "PLAY")
       /\ reqs[i].method = "SETUP2"
             => \E j \in 1..(i - 1) :
                   reqs[j].method = "SETUP" /\ reqs[j].status # "200 OK"

\* keep-alives of a run that fell back to SETUP2
C25_Witness ==
    /\ Len(reqs) > 0
    /\ reqs[Len(reqs)].method = "GET_PARAMETER"
    /\ reqs[Len(reqs)].body = "position"
    /\ KeepAlives = MaxKeepAlive

\* ------------------------------------------------------------------------
\* Claims about the order of the timer scan (checked under SpecTmr)
\* ------------------------------------------------------------------------
\* the timestamp of the k-th event the scan of a table comes to
ScanStamp(tbl, k) == tbl[Len(tbl) - k + 1].timestamp

\* C26: recordings are requested only for events not newer than the time
\* limit, and in the channel being scanned every event the scan has come to
\* is newer than all the events it comes to later, whatever the order of
\* the table; so what a cycle cut short by the cap has left are the oldest.
C26_NewestFirst ==
    /\ \A i \in DOMAIN t_log : t_log[i].timestamp <= t_world.limit
    /\ (t_pos # NoPos /\ ~ScanOver(t_world, t_pos)) =>
          LET tbl == t_world.table[MatchOrder(t_world)[t_pos.c]]
          IN \A k \in 1..t_pos.e : \A m \in (k + 1)..Len(tbl) :
                ScanStamp(tbl, m) < ScanStamp(tbl, k)

\* ------------------------------------------------------------------------
\* C27: once two confirmations of different programs have both completed,
\* the records file holds both programs.
\* ------------------------------------------------------------------------
C27_BothConfirmationsPersist ==
    \A a, b \in PutRequests :
        (/\ puts[a].pc = "done"
         /\ puts[b].pc = "done"
         /\ puts[a].program # puts[b].program)
        => {puts[a].program, puts[b].program} \subseteq recordings_file

\* ------------------------------------------------------------------------
\* C28: while the scan of a channel waits for the orchestrator's answer or
\* pauses, the table it iterates is the one it began with, and the scan
\* never ends on a table that changed size under its iterator.
\* ------------------------------------------------------------------------
C28_ScanTableUntouched ==
    /\ iter.pc \in {"get", "sleep"} => scan_epgdata[iter.ch] = iter.began
    /\ iter.pc # "RuntimeError"

====
